---- MODULE Spec2Model ----
(***************************************************************************)
(* A model of the sibilant compiler (src/sibilant/compiler.py): the code   *)
(* spaces with their variable classification, the activation blocks, the   *)
(* lowering of expressions to pseudo-ops and the stack-depth analysis.     *)
(***************************************************************************)
EXTENDS Integers, Sequences, FiniteSets, TLC

VARIABLES
    scopes,     \* the code spaces, by creation order; scopes[s].parent = 0 for a root
    compiler,   \* env["__compiler__"]: a code space, or 0 when the key is absent
    frames,     \* the activate blocks being executed, innermost last
    last,       \* the operation performed by the last step
    expr,       \* the expression handed to the compiler
    pc,         \* position of the pseudo-op interpreter in the buffer of scope 1
    depth,      \* number of values the interpreter holds on the stack
    iters,      \* backward jumps the interpreter has taken
    err,        \* the exception that is propagating, "" when none
    level,      \* nesting of forms in expr
    reader,     \* the Reader: its reader_macros, terminating list and atom_patterns
    stream      \* the events the source stream has given to the reader so far

vars == <<scopes, compiler, frames, last, expr, pc, depth, iters, err, level,
          reader, stream>>

-----------------------------------------------------------------------------
(* Bounds of the model.                                                    *)

\* code spaces in a chain root -> child -> ...
MaxScopes == 3
\* DEFINE pseudo-ops emitted over all code spaces of the scope specification
MaxDefines == 1
\* forms nested around the atom of a compiled expression
MaxLevel == 2
\* backward jumps the pseudo-op interpreter takes in one run
MaxIters == 2
\* code spaces created in the activation specification
MaxSpaces == 3
\* pseudo-ops emitted over all code spaces of the activation specification
MaxOps == 1

\* the names requested, declared and defined in the scope specification
Vars == {"x"}

-----------------------------------------------------------------------------
(* Lists.                                                                  *)

In(l, v) == \E i \in DOMAIN l : l[i] = v

\* list.remove(v): drops the first occurrence
ListRemove(l, v) ==
    IF ~In(l, v) THEN l
    ELSE LET i == CHOOSE k \in DOMAIN l : l[k] = v /\ \A j \in 1..(k-1) : l[j] # v
         IN  SubSeq(l, 1, i-1) \o SubSeq(l, i+1, Len(l))

ListUniqueAppend(l, v) == IF In(l, v) THEN l ELSE Append(l, v)

-----------------------------------------------------------------------------
(* Code spaces.                                                            *)

\* CodeSpace.__init__: each formal is appended once, in order
RECURSIVE UniqueArgs(_, _)
UniqueArgs(acc, args) ==
    IF args = <<>> THEN acc
    ELSE UniqueArgs(ListUniqueAppend(acc, Head(args)), Tail(args))

\* Constants of the constant pool: None, nil, integers, strings, code objects
NoneC == [k |-> "None", v |-> 0, s |-> ""]
NilC == [k |-> "nil", v |-> 0, s |-> ""]
IntC(i) == [k |-> "int", v |-> i, s |-> ""]
StrC(str) == [k |-> "str", v |-> 0, s |-> str]
CodeC(code) == [k |-> "code", v |-> code.scope, s |-> ""]

\* the float i.0
FloatC(i) == [k |-> "float", v |-> i, s |-> ""]

\* a == b of two constants: numbers of different types are equal when
\* their values are
PyEq(a, b) == a = b \/ (a.k \in {"int", "float"} /\ b.k \in {"int", "float"} /\ a.v = b.v)

\* v in l and l.index(v) of a list of constants
ConstIn(l, v) == \E i \in DOMAIN l : PyEq(l[i], v)

ConstIndex(l, v) ==
    (CHOOSE i \in 1..Len(l) : PyEq(l[i], v) /\ \A j \in 1..(i - 1) : ~PyEq(l[j], v)) - 1

\* CodeSpace.__init__ up to the varargs preparation; env is TRUE while the
\* code space is bound to the compilation environment
NewCodeSpace(parent, args, varargs) ==
    [parent      |-> parent,
     env         |-> FALSE,
     name        |-> "",
     declared_at |-> 0,
     consts      |-> <<NoneC>>,
     completed   |-> FALSE,
     args        |-> UniqueArgs(<<>>, args),
     varargs     |-> varargs,
     fast_vars   |-> UniqueArgs(<<>>, args),
     free_vars   |-> <<>>,
     cell_vars   |-> <<>>,
     global_vars |-> <<>>,
     names       |-> <<>>,
     pseudops    |-> <<>>,
     counter     |-> 0]

Classified(sc, s, n) ==
    \/ In(sc[s].fast_vars, n)
    \/ In(sc[s].free_vars, n)
    \/ In(sc[s].cell_vars, n)
    \/ In(sc[s].global_vars, n)

RECURSIVE RequestCell(_, _, _)

\* A request_cell without the test for a global of its own
RequestCellIgnoresGlobal(sc, s, n) ==
    IF In(sc[s].fast_vars, n)
    THEN [ok |-> TRUE,
          sc |-> [sc EXCEPT ![s].fast_vars = ListRemove(@, n),
                            ![s].cell_vars = ListUniqueAppend(@, n)]]
    ELSE IF In(sc[s].free_vars, n) \/ In(sc[s].cell_vars, n)
    THEN [ok |-> TRUE, sc |-> sc]
    ELSE IF sc[s].parent # 0
    THEN LET r == RequestCell(sc, sc[s].parent, n)
         IN  IF r.ok
             THEN [ok |-> TRUE,
                   sc |-> [r.sc EXCEPT ![s].free_vars = ListUniqueAppend(@, n)]]
             ELSE [ok |-> FALSE, sc |-> r.sc]
    ELSE [ok |-> FALSE, sc |-> sc]

\* A request_cell that hands on the cell of an ancestor without taking the
\* name into its own free_vars
RequestCellPassesThrough(sc, s, n) ==
    IF In(sc[s].global_vars, n) THEN [ok |-> FALSE, sc |-> sc]
    ELSE IF In(sc[s].fast_vars, n)
    THEN [ok |-> TRUE,
          sc |-> [sc EXCEPT ![s].fast_vars = ListRemove(@, n),
                            ![s].cell_vars = ListUniqueAppend(@, n)]]
    ELSE IF In(sc[s].free_vars, n) \/ In(sc[s].cell_vars, n)
    THEN [ok |-> TRUE, sc |-> sc]
    ELSE IF sc[s].parent # 0
    THEN RequestCell(sc, sc[s].parent, n)
    ELSE [ok |-> FALSE, sc |-> sc]

\* CodeSpace.request_cell: the answer and the code spaces afterwards
RequestCell(sc, s, n) ==
    IF In(sc[s].global_vars, n) THEN [ok |-> FALSE, sc |-> sc]
    ELSE IF In(sc[s].fast_vars, n)
    THEN [ok |-> TRUE,
          sc |-> [sc EXCEPT ![s].fast_vars = ListRemove(@, n),
                            ![s].cell_vars = ListUniqueAppend(@, n)]]
    ELSE IF In(sc[s].free_vars, n) \/ In(sc[s].cell_vars, n)
    THEN [ok |-> TRUE, sc |-> sc]
    ELSE IF sc[s].parent # 0
    THEN LET r == RequestCell(sc, sc[s].parent, n)
         IN  IF r.ok
             THEN [ok |-> TRUE,
                   sc |-> [r.sc EXCEPT ![s].free_vars = ListUniqueAppend(@, n)]]
             ELSE [ok |-> FALSE, sc |-> r.sc]
    ELSE [ok |-> FALSE, sc |-> sc]

\* A request_var that consults the parent although the name is classified
RequestVarAlwaysAsks(sc, s, n) ==
    LET r == IF sc[s].parent # 0 THEN RequestCell(sc, sc[s].parent, n)
             ELSE [ok |-> FALSE, sc |-> sc]
    IN  IF r.ok
        THEN [r.sc EXCEPT ![s].free_vars = ListUniqueAppend(@, n)]
        ELSE [r.sc EXCEPT ![s].global_vars = ListUniqueAppend(@, n),
                          ![s].names = ListUniqueAppend(@, n)]

\* CodeSpace.request_var
RequestVar(sc, s, n) ==
    IF Classified(sc, s, n) THEN sc
    ELSE LET r == IF sc[s].parent # 0 THEN RequestCell(sc, sc[s].parent, n)
                  ELSE [ok |-> FALSE, sc |-> sc]
         IN  IF r.ok
             THEN [r.sc EXCEPT ![s].free_vars = ListUniqueAppend(@, n)]
             ELSE [r.sc EXCEPT ![s].global_vars = ListUniqueAppend(@, n),
                               ![s].names = ListUniqueAppend(@, n)]

\* CodeSpace.declare_var
DeclareVar(sc, s, n) == [sc EXCEPT ![s].fast_vars = ListUniqueAppend(@, n)]

\* CodeSpace.pseudop: one pseudo-op appended to the buffer
Pseudop(sc, s, op, arg) ==
    [sc EXCEPT ![s].pseudops = Append(@, [op |-> op, arg |-> arg])]

\* A pseudop_define that leaves a name the code space holds in another list
\* out of global_vars and names
PseudopDefineKeepsLocal(sc, s, n) ==
    IF In(sc[s].fast_vars, n) \/ In(sc[s].cell_vars, n) \/ In(sc[s].free_vars, n)
    THEN Pseudop(sc, s, "DEFINE", n)
    ELSE Pseudop([sc EXCEPT ![s].global_vars = ListUniqueAppend(@, n),
                            ![s].names = ListUniqueAppend(@, n)],
                 s, "DEFINE", n)

\* CodeSpace.pseudop_define
PseudopDefine(sc, s, n) ==
    Pseudop([sc EXCEPT ![s].global_vars = ListUniqueAppend(@, n),
                       ![s].names = ListUniqueAppend(@, n)],
            s, "DEFINE", n)

-----------------------------------------------------------------------------
(* Expressions: nil, symbols, constants and cons pairs.  pos is the line    *)
(* the position table holds for a pair, 0 when it holds none.              *)

Nil == [t |-> "nil"]
Sym(n) == [t |-> "sym", n |-> n]
Num(i) == [t |-> "const", c |-> IntC(i)]
Flt(i) == [t |-> "const", c |-> FloatC(i)]
Cons(h, tl) == [t |-> "pair", head |-> h, tail |-> tl, pos |-> 0]
ConsAt(h, tl, pos) == [t |-> "pair", head |-> h, tail |-> tl, pos |-> pos]

IsNil(e) == e.t = "nil"
IsPair(e) == e.t = "pair"
IsSymbol(e) == e.t = "sym"
IsSym(e, n) == e.t = "sym" /\ e.n = n

\* the proper list of the expressions of a sequence
RECURSIVE List(_)
List(items) ==
    IF items = <<>> THEN Nil ELSE Cons(Head(items), List(Tail(items)))

RECURSIVE IsProper(_)
IsProper(e) == IF IsPair(e) THEN IsProper(e.tail) ELSE IsNil(e)

\* cons.unpack(): the elements, and the last tail when it is not nil
RECURSIVE Unpack(_)
Unpack(e) ==
    IF IsPair(e) THEN <<e.head>> \o Unpack(e.tail)
    ELSE IF IsNil(e) THEN <<>>
    ELSE <<e>>

Count(e) == Len(Unpack(e))

-----------------------------------------------------------------------------
(* The compiler state handed from one compiler operation to the next: the  *)
(* code spaces, env["__compiler__"] (0 when absent) and the exception that *)
(* is propagating ("" when none).                                          *)

Ok(st) == st.err = ""

Raise(st, msg) == IF Ok(st) THEN [st EXCEPT !.err = msg] ELSE st

\* CodeSpace.require_active
RequireActiveNeverRaises(st, s) == st

RequireActive(st, s) ==
    IF Ok(st) /\ ~st.scopes[s].env
    THEN Raise(st, "compiler code space is not active")
    ELSE st

\* An entry that marks the code space active and leaves the key of env alone
ActivateKeepsKey(st, s) ==
    [st EXCEPT !.scopes[s].env = TRUE]

\* the entry of CodeSpace.activate, up to the yield
Activate(st, s) ==
    [st EXCEPT !.scopes[s].env = TRUE, !.compiler = s]

\* A finally clause that always deletes the key
DeactivateDeletesKey(st, s, old) ==
    [st EXCEPT !.compiler = 0, !.scopes[s].env = FALSE]

\* the finally clause of CodeSpace.activate; old is the value read at entry
Deactivate(st, s, old) ==
    [st EXCEPT !.compiler = IF old = 0 THEN 0 ELSE old,
               !.scopes[s].env = FALSE]

Emit(st, s, op, arg) ==
    IF Ok(st) THEN [st EXCEPT !.scopes = Pseudop(@, s, op, arg)] ELSE st

\* CodeSpace.pseudop_position
PseudopPosition(st, s, line) == Emit(st, s, "POSITION", line)

\* CodeSpace.pseudop_position_of
PseudopPositionOf(st, s, e) ==
    IF IsPair(e) /\ e.pos # 0 THEN PseudopPosition(st, s, e.pos) ELSE st

\* CodeSpace.declare_const
DeclareConst(st, s, val) ==
    IF Ok(st)
    THEN [st EXCEPT !.scopes[s].consts = IF ConstIn(@, val) THEN @ ELSE Append(@, val)]
    ELSE st

PseudopCall(st, s, argc) == Emit(st, s, "CALL", argc)

PseudopCallVarargs(st, s, argc) == Emit(st, s, "CALL_VARARGS", argc)

PseudopConst(st, s, val) == Emit(DeclareConst(st, s, val), s, "CONST", val)

PseudopGetVar(st, s, n) ==
    IF Ok(st)
    THEN Emit([st EXCEPT !.scopes = RequestVar(@, s, n)], s, "GET_VAR", n)
    ELSE st

PseudopSetVar(st, s, n) ==
    IF Ok(st)
    THEN Emit([st EXCEPT !.scopes = RequestVar(@, s, n)], s, "SET_VAR", n)
    ELSE st

PseudopLambda(st, s, code) ==
    Emit(DeclareConst(DeclareConst(st, s, CodeC(code)), s, StrC(code.co_name)),
         s, "LAMBDA", code)

PseudopPop(st, s) == Emit(st, s, "POP", 0)

PseudopReturn(st, s) == Emit(st, s, "RET_VAL", 0)

StPseudopDefine(st, s, n) ==
    IF Ok(st) THEN [st EXCEPT !.scopes = PseudopDefine(@, s, n)] ELSE st

PseudopLabel(st, s, label) == Emit(st, s, "LABEL", label)

PseudopJump(st, s, label) == Emit(st, s, "JUMP", label)

PseudopPopJumpIfFalse(st, s, label) == Emit(st, s, "POP_JUMP_IF_FALSE", label)

PseudopBuildTuple(st, s, count) == Emit(st, s, "BUILD_TUPLE", count)

PseudopBuildTupleUnpack(st, s, count) == Emit(st, s, "BUILD_TUPLE_UNPACK", count)

\* A label generator whose counter stays where it is
GenLabelStuck(st, s) ==
    [label |-> st.scopes[s].counter + 1, st |-> st]

\* label_generator.gen_label: label n stands for "label_%04i" % n
GenLabel(st, s) ==
    [label |-> st.scopes[s].counter + 1,
     st    |-> [st EXCEPT !.scopes[s].counter = @ + 1]]

\* CodeSpace._prep_varargs
PrepVarargs(st, s) ==
    LET rest == st.scopes[s].args[Len(st.scopes[s].args)]
        st0 == IF st.scopes[s].declared_at # 0
               THEN PseudopPosition(st, s, st.scopes[s].declared_at) ELSE st
        st1 == PseudopGetVar(st0, s, "make-proper")
        st2 == PseudopGetVar(st1, s, rest)
        st3 == PseudopCallVarargs(st2, s, 0)
    IN  PseudopSetVar(st3, s, rest)

\* CodeSpace.child: the new code space is the last of the arena
Child(st, parent, args, varargs, name, declared_at) ==
    LET k  == Len(st.scopes) + 1
        cs == [NewCodeSpace(parent, args, varargs) EXCEPT
                  !.name = name,
                  !.declared_at = IF declared_at = 0
                                  THEN st.scopes[parent].declared_at
                                  ELSE declared_at]
        st1 == [st EXCEPT !.scopes = Append(@, cs)]
    IN  IF varargs THEN PrepVarargs(st1, k) ELSE st1

\* CodeSpace.child_context: the child is created, its activation is not
\* entered yet
ChildContext(st, s, args, varargs, name, declared_at) ==
    LET st1 == RequireActive(st, s)
    IN  IF Ok(st1) THEN Child(st1, s, args, varargs, name, declared_at) ELSE st1

-----------------------------------------------------------------------------
(* max_stack.                                                              *)

Labels(ops) ==
    {ops[i].arg : i \in {j \in DOMAIN ops :
        ops[j].op \in {"LABEL", "JUMP", "POP_JUMP_IF_TRUE", "POP_JUMP_IF_FALSE"}}}

\* push(by)
Push(w, by) ==
    [w EXCEPT !.stac = @ + by,
              !.maxc = IF w.stac + by > @ THEN w.stac + by ELSE @]

\* pop(by), with its assertion
Pop(w, by) ==
    [w EXCEPT !.stac = @ - by, !.failed = @ \/ (w.stac - by < 0)]

\* the effect of one pseudo-op on the walk of max_stack; at[l] = -1 while
\* no jump to label l has been met
MaxStackStep(w, o) ==
    IF w.failed THEN w
    ELSE IF o.op = "POSITION" THEN w
    ELSE IF o.op = "CALL" THEN Pop(w, o.arg)
    ELSE IF o.op \in {"CONST", "GET_VAR", "DUP"} THEN Push(w, 1)
    ELSE IF o.op \in {"SET_VAR", "DEFINE", "POP"} THEN Pop(w, 1)
    ELSE IF o.op = "LAMBDA"
    THEN LET a  == Len(o.arg.co_freevars)
             w1 == IF a # 0 THEN Pop(Push(w, a), a) ELSE w
         IN  Push(Pop(Push(w1, 2), 2), 1)
    ELSE IF o.op = "RET_VAL" THEN Pop(w, 1)
    ELSE IF o.op = "JUMP" THEN [w EXCEPT !.at[o.arg] = w.stac]
    ELSE IF o.op = "LABEL"
    THEN [w EXCEPT !.stac = IF w.at[o.arg] = -1 THEN @ ELSE w.at[o.arg]]
    ELSE IF o.op \in {"POP_JUMP_IF_TRUE", "POP_JUMP_IF_FALSE"}
    THEN LET w1 == Pop(w, 1)
         IN  IF w1.failed THEN w1 ELSE [w1 EXCEPT !.at[o.arg] = w1.stac]
    ELSE IF o.op = "CALL_VARARGS" THEN Pop(w, 1)
    ELSE IF o.op \in {"BUILD_TUPLE", "BUILD_TUPLE_UNPACK"}
    THEN LET w1 == Pop(w, o.arg)
         IN  IF w1.failed THEN w1 ELSE Push(w1, 1)
    ELSE IF o.op \in {"SETUP_EXCEPT", "SETUP_FINALLY", "POP_BLOCK", "POP_EXCEPT",
                      "EXCEPTION_MATCH"}
    THEN w
    ELSE [w EXCEPT !.failed = TRUE]

\* the loop of max_stack over the pseudo-ops lo..hi, in order; the walk
\* ends at the first assertion that fails
RECURSIVE MaxStackFrom(_, _, _, _)
MaxStackFrom(w, ops, lo, hi) ==
    IF w.failed \/ lo > hi THEN w
    ELSE IF lo = hi THEN MaxStackStep(w, ops[lo])
    ELSE MaxStackFrom(MaxStackFrom(w, ops, lo, (lo + hi) \div 2), ops,
                      (lo + hi) \div 2 + 1, hi)

\* the walk of max_stack over a buffer: the last depth, the maximum, and
\* whether an assertion of the walk failed
MaxStackWalk(ops) ==
    MaxStackFrom([stac |-> 0, maxc |-> 0, failed |-> FALSE,
                  at |-> [l \in Labels(ops) |-> -1]], ops, 1, Len(ops))

\* A max_stack without its assertions
MaxStackNeverAsserts(ops) == TRUE

\* max_stack returns (no assertion fails)
MaxStackReturns(ops) ==
    LET w == MaxStackWalk(ops) IN ~w.failed /\ w.stac = 0

\* CodeSpace.complete: the code object, as far as the compiler reads it
Complete(st, s) ==
    LET st1 == RequireActive(st, s)
        code == [scope |-> s,
                 co_name |-> IF st.scopes[s].name = "" THEN "<anon>"
                             ELSE st.scopes[s].name,
                 co_freevars |-> st.scopes[s].free_vars,
                 stacksize |-> MaxStackWalk(st.scopes[s].pseudops).maxc]
    IN  IF ~Ok(st1) THEN [st |-> st1, code |-> code]
        ELSE IF ~MaxStackReturns(st.scopes[s].pseudops)
        THEN [st |-> Raise(st1, "AssertionError in max_stack"), code |-> code]
        ELSE [st |-> [st1 EXCEPT !.scopes[s].completed = TRUE], code |-> code]

-----------------------------------------------------------------------------
(* SpecialsCodeSpace: add_expression and the special forms.                *)
(*                                                                         *)
(* A method of the compiler runs its statements in order, and a statement  *)
(* may call add_expression or another special, which runs to its end       *)
(* before the next statement starts. The compiler state carries the        *)
(* statements still to run, innermost call first, in its field tasks; a    *)
(* method is modelled by what it does at once and the statements it leaves *)
(* to run. An exception skips the statements down to the finally clause of *)
(* each activation that was entered.                                       *)

\* the names env binds to the built-in specials (builtin_specials)
SpecialNames ==
    {"quote", "quasiquote", "begin", "lambda", "let", "while", "try",
     "set-var", "define", "defun", "defmacro", "cond"}

StrNames(items) == [i \in DOMAIN items |-> items[i].n]

\* a statement still to run: t is the method, s the code space it runs on
Task(t, s, e, a, b, n) == [t |-> t, s |-> s, e |-> e, a |-> a, b |-> b, n |-> n]

\* self.pseudop_<op>(arg), for the pseudo-ops that only append to the buffer
TOp(op, s, arg) == Task("pseudop", s, Nil, arg, 0, op)

\* self.add_expression(e), self.special_begin(e), self.special_quote(e), ...
TExpr(t, s, e) == Task(t, s, e, 0, 0, "")

\* self.pseudop_get_var(n), self.pseudop_set_var(n), self.pseudop_define(n)
TName(t, s, n) == Task(t, s, Nil, 0, 0, n)

\* self.pseudop_const(val)
TConst(s, val) == Task("const", s, [t |-> "const", c |-> val], 0, 0, "")

\* the code object complete() returned last, before any was returned
NoCode == [scope |-> 0, co_name |-> "", co_freevars |-> <<>>, stacksize |-> 0]

\* a compiler state with statements to run
Machine(st, tasks) ==
    [scopes |-> st.scopes, compiler |-> st.compiler, err |-> st.err,
     tasks |-> tasks, code |-> NoCode]

\* the statements ts run next, before those already waiting
Do(st, ts) == IF Ok(st) THEN [st EXCEPT !.tasks = ts \o @] ELSE st

\* the Macro instances env holds besides the built-in specials: identity is
\* Macro(lambda x: x)
MacroNames == {"identity"}

\* Macro.special: self.expand(*cl.unpack()); a call of the function with
\* other than one argument is a TypeError
MacroSpecial(st, name, cl) ==
    IF Len(Unpack(cl)) # 1 THEN [st |-> Raise(st, "TypeError"), value |-> Nil]
    ELSE [st |-> st, value |-> Unpack(cl)[1]]

\* SpecialsCodeSpace.find_special: the name of the special, "" for None
FindSpecial(st, s, namesym) ==
    LET st1 == RequireActive(st, s)
    IN  [st |-> st1,
         special |-> IF Ok(st1) /\ namesym.n \in SpecialNames \cup MacroNames
                     THEN namesym.n
                     ELSE ""]

\* (symbol "name"), as special_quote and special_quasiquote build it
QuoteSymbol(c, n) ==
    <<TName("get_var", c, "symbol"), TConst(c, StrC(n)), TOp("CALL", c, 1)>>

\* SpecialsCodeSpace.special_quote
SpecialQuote(st, c, body) ==
    IF IsNil(body) THEN PseudopGetVar(st, c, "nil")
    ELSE IF IsSymbol(body) THEN Do(st, QuoteSymbol(c, body.n))
    ELSE IF IsPair(body)
    THEN LET items == Unpack(body)
         IN  Do(PseudopGetVar(st, c, IF IsProper(body) THEN "make-proper"
                                     ELSE "cons"),
                [i \in DOMAIN items |-> TExpr("quote", c, items[i])]
                \o <<TOp("CALL", c, Len(items))>>)
    ELSE PseudopConst(st, c, body.c)

\* one turn of the loop of special_quasiquote over the elements left, and
\* the statements after the loop; coll and curr are coll_tup and curr_tup
QuasiTurn(st, c, items, coll, curr) ==
    LET flush == IF coll # 0 THEN <<TOp("BUILD_TUPLE", c, coll)>> ELSE <<>>
        tups  == IF coll # 0 THEN curr + 1 ELSE curr
        e     == items[1]
        turn(ts, n) == Do(st, ts \o <<Task("quasi_turn", c, Tail(items), n, curr, "")>>)
    IN  IF items = <<>>
        THEN Do(st, flush \o <<TOp("BUILD_TUPLE_UNPACK", c, tups),
                               TOp("CALL_VARARGS", c, 0)>>)
        ELSE IF IsNil(e) THEN turn(<<TName("get_var", c, "nil")>>, coll + 1)
        ELSE IF IsSymbol(e) THEN turn(QuoteSymbol(c, e.n), coll + 1)
        ELSE IF IsPair(e)
        THEN IF IsSym(e.head, "unquote")
             THEN IF IsPair(e.tail) /\ IsSym(e.tail.head, "splice")
                  THEN Do(st, flush \o
                              <<TName("get_var", c, "to-tuple"),
                                TExpr("add_expression", c, e.tail.tail),
                                TOp("CALL", c, 1),
                                Task("quasi_turn", c, Tail(items), 0, tups + 1, "")>>)
                  ELSE turn(<<TExpr("add_expression", c, e.tail)>>, coll + 1)
             ELSE turn(<<TExpr("quasiquote", c, e)>>, coll + 1)
        ELSE turn(<<TConst(c, e.c)>>, coll + 1)

\* SpecialsCodeSpace.special_quasiquote
SpecialQuasiquote(st, c, body) ==
    IF IsNil(body) THEN PseudopGetVar(st, c, "nil")
    ELSE IF IsSymbol(body) THEN Do(st, QuoteSymbol(c, body.n))
    ELSE IF IsPair(body)
    THEN Do(PseudopGetVar(st, c, IF IsProper(body) THEN "make-proper" ELSE "cons"),
            <<Task("quasi_turn", c, Unpack(body), 0, 0, "")>>)
    ELSE st

\* SpecialsCodeSpace.special_begin
SpecialBegin(st, c, cl) ==
    IF IsNil(cl) THEN PseudopConst(st, c, NoneC)
    ELSE LET items == Unpack(cl)
         IN  Do(PseudopPositionOf(st, c, cl),
                [j \in 1..(2 * Len(items) - 1) |->
                    IF j % 2 = 1 THEN TExpr("add_expression", c, items[(j + 1) \div 2])
                    ELSE TOp("POP", c, 0)])

\* child_context, then the with block of special_lambda, special_let,
\* special_defun and special_defmacro: the body as a begin, a return,
\* complete(); the finally clause of activate runs on every exit
FunctionBody(st, c, args, varargs, name, declared_at, body) ==
    LET k   == Len(st.scopes) + 1
        st1 == ChildContext(st, c, args, varargs, name, declared_at)
    IN  IF ~Ok(st1) THEN st1
        ELSE Do(Activate(st1, k),
                <<TExpr("begin", k, body), TOp("RET_VAL", k, 0),
                  TExpr("complete", k, Nil),
                  Task("exit", k, Nil, st1.compiler, 0, "")>>)

\* the formals of lambda, defun and defmacro: a symbol, or a pair; nil is
\* the empty list of formals (is_pair(nil) holds, nil.unpack() is empty)
FormalsOk(args) == IsSymbol(args) \/ IsPair(args) \/ IsNil(args)

FormalArgs(args) == IF IsSymbol(args) THEN <<args.n>> ELSE StrNames(Unpack(args))

FormalVarargs(args) == IF IsSymbol(args) THEN TRUE ELSE ~IsProper(args)

\* positions[id(e)], 0 on KeyError
PosOf(e) == IF IsPair(e) THEN e.pos ELSE 0

\* SpecialsCodeSpace.special_lambda
SpecialLambda(st, c, cl) ==
    LET args == cl.head
        body == cl.tail
    IN  IF ~FormalsOk(args) THEN Raise(st, "formals must be symbol or pair")
        ELSE FunctionBody(Do(st, <<TExpr("lambda", c, Nil)>>), c, FormalArgs(args),
                          FormalVarargs(args), "<lambda>", PosOf(body), body)

\* SpecialsCodeSpace.special_let
SpecialLet(st, c, cl) ==
    LET bindings == Unpack(cl.head)
        body == cl.tail
        args == [i \in DOMAIN bindings |-> Unpack(bindings[i])[1].n]
        vals == [i \in DOMAIN bindings |-> Unpack(bindings[i])[2]]
    IN  FunctionBody(Do(st, <<TExpr("lambda", c, Nil)>>
                            \o [i \in DOMAIN vals |->
                                   TExpr("add_expression", c, vals[i])]
                            \o <<TOp("CALL", c, Len(vals))>>),
                     c, args, FALSE, "<let>", PosOf(body), body)

\* SpecialsCodeSpace.special_while
SpecialWhile(st, c, cl) ==
    LET test == cl.head
        body == cl.tail
        top  == GenLabel(st, c)
        done == GenLabel(top.st, c)
    IN  Do(done.st,
           <<TConst(c, NoneC), TOp("LABEL", c, top.label),
             TExpr("add_expression", c, test),
             TOp("POP_JUMP_IF_FALSE", c, done.label), TOp("POP", c, 0),
             TExpr("begin", c, body),
             TOp("JUMP", c, top.label), TOp("LABEL", c, done.label)>>)

\* SpecialsCodeSpace.special_setf
SpecialSetf(st, c, cl) ==
    LET binding == cl.head
    IN  Do(st, <<TExpr("begin", c, cl.tail)>> \o
               IF IsSymbol(binding)
               THEN <<TName("set_var", c, binding.n), TConst(c, NoneC)>>
               ELSE <<TName("raise", c, "AssertionError in special_setf")>>)

\* SpecialsCodeSpace.special_define
SpecialDefine(st, c, cl) ==
    LET binding == cl.head
    IN  Do(st, <<TExpr("begin", c, cl.tail)>> \o
               IF IsSymbol(binding)
               THEN <<TName("define", c, binding.n), TConst(c, NoneC)>>
               ELSE <<TName("raise", c, "AssertionError in special_define")>>)

\* SpecialsCodeSpace.special_defun
SpecialDefun(st, c, cl) ==
    LET name == cl.head.n
        args == cl.tail.head
        body == cl.tail.tail
    IN  IF ~FormalsOk(args) THEN Raise(st, "formals must be symbol or pair")
        ELSE FunctionBody(Do(st, <<TExpr("lambda", c, Nil),
                                   TName("define", c, name), TConst(c, NoneC)>>),
                          c, FormalArgs(args), FormalVarargs(args), name,
                          PosOf(cl.tail), body)

\* SpecialsCodeSpace.special_defmacro
SpecialDefmacro(st, c, cl) ==
    LET name == cl.head.n
        args == cl.tail.head
        body == cl.tail.tail
    IN  IF ~FormalsOk(args) THEN Raise(st, "formals must be symbol or pair")
        ELSE FunctionBody(Do(st, <<TName("get_var", c, "macro"),
                                   TExpr("lambda", c, Nil), TOp("CALL", c, 1),
                                   TName("define", c, name), TConst(c, NoneC)>>),
                          c, FormalArgs(args), FormalVarargs(args), name,
                          PosOf(cl.tail), body)

\* SpecialsCodeSpace.special_cond, up to its loop
SpecialCond(st, c, cl) ==
    LET first == GenLabel(st, c)
        done  == GenLabel(PseudopLabel(first.st, c, first.label), c)
    IN  Do(done.st, <<Task("cond_turn", c, Unpack(cl), 0, done.label, "")>>)

\* one turn of the loop of special_cond over the clauses left, and the
\* statements after the loop; label is 0 for None
CondTurn(st, c, clauses, label, done) ==
    LET mark == IF label # 0 THEN <<TOp("LABEL", c, label)>> ELSE <<>>
        test == clauses[1].head
        body == clauses[1].tail
        next == GenLabel(st, c)
    IN  IF clauses = <<>>
        THEN Do(st, <<TConst(c, NoneC)>> \o mark \o <<TOp("LABEL", c, done)>>)
        ELSE Do(next.st,
                mark \o
                (IF IsSym(test, "else") THEN <<>>
                 ELSE <<TExpr("add_expression", c, test),
                        TOp("POP_JUMP_IF_FALSE", c, next.label)>>) \o
                <<TExpr("begin", c, body), TOp("JUMP", c, done),
                  Task("cond_turn", c, Tail(clauses), next.label, done, "")>>)

\* builtin_specials.invoke_special: the special emits into the code space
\* env["__compiler__"] names
InvokeSpecial(st, name, cl) ==
    LET c == st.compiler
    IN  IF c = 0 \/ c > Len(st.scopes)
        THEN Raise(st, "special invoked without active compiler")
        ELSE IF name = "quote" THEN SpecialQuote(st, c, cl)
        ELSE IF name = "quasiquote" THEN SpecialQuasiquote(st, c, cl)
        ELSE IF name = "begin" THEN SpecialBegin(st, c, cl)
        ELSE IF name = "lambda" THEN SpecialLambda(st, c, cl)
        ELSE IF name = "let" THEN SpecialLet(st, c, cl)
        ELSE IF name = "while" THEN SpecialWhile(st, c, cl)
        ELSE IF name = "set-var" THEN SpecialSetf(st, c, cl)
        ELSE IF name = "define" THEN SpecialDefine(st, c, cl)
        ELSE IF name = "defun" THEN SpecialDefun(st, c, cl)
        ELSE IF name = "defmacro" THEN SpecialDefmacro(st, c, cl)
        ELSE IF name = "cond" THEN SpecialCond(st, c, cl)
        ELSE Raise(st, "NameError in special_try")

\* expr = special.special(self.env, tail) gave r.value, not None: the loop
\* of add_expression starts over on it
StartsOver(r, s) ==
    Do(r.st, <<Task("add_expression", s, r.value, 1, 0, "")>>)

\* An add_expression that takes a macro for done, as if its expansion were
\* None
AddExpressionLoopDropsExpansion(st, s, e, again) ==
    LET st1   == IF again THEN st
                 ELSE PseudopPositionOf(RequireActive(st, s), s, e)
        f     == FindSpecial(st1, s, e.head)
        items == Unpack(e)
    IN  IF ~Ok(st1) THEN st1
        ELSE IF IsNil(e) THEN PseudopConst(st1, s, NilC)
        ELSE IF IsPair(e)
        THEN IF IsSymbol(e.head) /\ ~Ok(f.st) THEN f.st
             ELSE IF IsSymbol(e.head) /\ f.special \in MacroNames
             THEN MacroSpecial(f.st, f.special, e.tail).st
             ELSE IF IsSymbol(e.head) /\ f.special # ""
             THEN InvokeSpecial(f.st, f.special, e.tail)
             ELSE Do(st1, [i \in DOMAIN items |->
                              TExpr("add_expression", s, items[i])]
                          \o <<TExpr("position_of", s, e),
                               TOp("CALL", s, Count(e) - 1)>>)
        ELSE IF IsSymbol(e) THEN PseudopGetVar(st1, s, e.n)
        ELSE PseudopConst(st1, s, e.c)

\* SpecialsCodeSpace.add_expression: require_active and position_of, then
\* the while loop on expr = e; again holds when the loop has started over
\* on the expression a macro returned.  Every built-in special returns None
\* and ends the loop
AddExpressionLoop(st, s, e, again) ==
    LET st1   == IF again THEN st
                 ELSE PseudopPositionOf(RequireActive(st, s), s, e)
        f     == FindSpecial(st1, s, e.head)
        items == Unpack(e)
    IN  IF ~Ok(st1) THEN st1
        ELSE IF IsNil(e) THEN PseudopConst(st1, s, NilC)
        ELSE IF IsPair(e)
        THEN IF IsSymbol(e.head) /\ ~Ok(f.st) THEN f.st
             ELSE IF IsSymbol(e.head) /\ f.special \in MacroNames
             THEN StartsOver(MacroSpecial(f.st, f.special, e.tail), s)
             ELSE IF IsSymbol(e.head) /\ f.special # ""
             THEN InvokeSpecial(f.st, f.special, e.tail)
             ELSE Do(st1, [i \in DOMAIN items |->
                              TExpr("add_expression", s, items[i])]
                          \o <<TExpr("position_of", s, e),
                               TOp("CALL", s, Count(e) - 1)>>)
        ELSE IF IsSymbol(e) THEN PseudopGetVar(st1, s, e.n)
        ELSE PseudopConst(st1, s, e.c)

\* SpecialsCodeSpace.add_expression
AddExpression(st, s, e) == AddExpressionLoop(st, s, e, FALSE)

\* SpecialsCodeSpace.add_expression_with_return
AddExpressionWithReturn(st, s, e) ==
    Do(st, <<TExpr("add_expression", s, e), TOp("RET_VAL", s, 0)>>)

\* the next statement runs; while an exception propagates only the finally
\* clauses of the activations run
Step(st) ==
    LET h  == Head(st.tasks)
        m  == [st EXCEPT !.tasks = Tail(@)]
    IN  IF st.tasks = <<>> THEN st
        ELSE IF h.t = "exit" THEN Deactivate(m, h.s, h.a)
        ELSE IF ~Ok(st) THEN m
        ELSE IF h.t = "pseudop" THEN Emit(m, h.s, h.n, h.a)
        ELSE IF h.t = "const" THEN PseudopConst(m, h.s, h.e.c)
        ELSE IF h.t = "get_var" THEN PseudopGetVar(m, h.s, h.n)
        ELSE IF h.t = "set_var" THEN PseudopSetVar(m, h.s, h.n)
        ELSE IF h.t = "define" THEN StPseudopDefine(m, h.s, h.n)
        ELSE IF h.t = "lambda" THEN PseudopLambda(m, h.s, m.code)
        ELSE IF h.t = "position_of" THEN PseudopPositionOf(m, h.s, h.e)
        ELSE IF h.t = "add_expression" THEN AddExpressionLoop(m, h.s, h.e, h.a = 1)
        ELSE IF h.t = "begin" THEN SpecialBegin(m, h.s, h.e)
        ELSE IF h.t = "quote" THEN SpecialQuote(m, h.s, h.e)
        ELSE IF h.t = "quasiquote" THEN SpecialQuasiquote(m, h.s, h.e)
        ELSE IF h.t = "quasi_turn" THEN QuasiTurn(m, h.s, h.e, h.a, h.b)
        ELSE IF h.t = "cond_turn" THEN CondTurn(m, h.s, h.e, h.a, h.b)
        ELSE IF h.t = "complete"
        THEN [Complete(m, h.s).st EXCEPT !.code = Complete(m, h.s).code]
        ELSE IF h.t = "raise" THEN Raise(m, h.n)
        ELSE Raise(m, "unknown statement")

\* up to n statements run, one after the other
RECURSIVE Steps(_, _)
Steps(st, n) ==
    IF st.tasks = <<>> THEN st
    ELSE IF n = 1 THEN Step(st)
    ELSE Steps(Steps(st, n \div 2), n - (n \div 2))

\* the statements run until none is left
RECURSIVE Execute(_, _)
Execute(st, n) ==
    IF st.tasks = <<>> THEN st ELSE Execute(Steps(st, n), 2 * n)

\* compile_from_ast: a root code space is created and activated, the
\* expression is added with a return, and the code space is completed
CompileFromAst(st, e) ==
    LET k   == Len(st.scopes) + 1
        st1 == [st EXCEPT !.scopes = Append(@, NewCodeSpace(0, <<>>, FALSE))]
    IN  Execute(AddExpressionWithReturn(
                    Machine(Activate(st1, k),
                            <<TExpr("complete", k, Nil),
                              Task("exit", k, Nil, st1.compiler, 0, "")>>),
                    k, e), 16)

-----------------------------------------------------------------------------
(* The scope specification: code spaces are created in a chain and names    *)
(* are requested, declared and defined on them in any order.               *)

NoOp == [op |-> "none", s |-> 0, n |-> "", ok |-> FALSE, fresh |-> FALSE]

\* what an operation on code space s and name n leaves in last; fresh tells
\* whether s had n in none of its lists when the operation was called
Did(op, s, n, ok) ==
    [op |-> op, s |-> s, n |-> n, ok |-> ok, fresh |-> ~Classified(scopes, s, n)]

IdleRest == /\ compiler = 0
            /\ frames = <<>>
            /\ expr = <<>>
            /\ pc = 0
            /\ depth = 0
            /\ iters = 0
            /\ err = ""
            /\ level = 0
            /\ reader = 0
            /\ stream = <<>>

ArgLists == {<<>>, <<"x">>}

NumDefines(sc) ==
    LET RECURSIVE Sum(_)
        Sum(i) == IF i = 0 THEN 0 ELSE Len(sc[i].pseudops) + Sum(i - 1)
    IN  Sum(Len(sc))

ScopeInit ==
    /\ scopes = <<NewCodeSpace(0, <<>>, FALSE)>>
    /\ last = NoOp
    /\ IdleRest

\* CodeSpace.child on the innermost code space
ScopeChild ==
    /\ Len(scopes) < MaxScopes
    /\ \E args \in ArgLists :
          /\ scopes' = Append(scopes, NewCodeSpace(Len(scopes), args, FALSE))
          /\ last' = [NoOp EXCEPT !.op = "child", !.s = Len(scopes) + 1]
    /\ UNCHANGED <<compiler, frames, expr, pc, depth, iters, err, level, reader, stream>>

ScopeRequestVar ==
    /\ \E s \in 1..Len(scopes), n \in Vars :
          /\ scopes' = RequestVar(scopes, s, n)
          /\ last' = Did("request_var", s, n, TRUE)
    /\ UNCHANGED <<compiler, frames, expr, pc, depth, iters, err, level, reader, stream>>

ScopeRequestCell ==
    /\ \E s \in 1..Len(scopes), n \in Vars :
          /\ scopes' = RequestCell(scopes, s, n).sc
          /\ last' = Did("request_cell", s, n, RequestCell(scopes, s, n).ok)
    /\ UNCHANGED <<compiler, frames, expr, pc, depth, iters, err, level, reader, stream>>

ScopeDeclareVar ==
    /\ \E s \in 1..Len(scopes), n \in Vars :
          /\ scopes' = DeclareVar(scopes, s, n)
          /\ last' = Did("declare_var", s, n, TRUE)
    /\ UNCHANGED <<compiler, frames, expr, pc, depth, iters, err, level, reader, stream>>

ScopePseudopDefine ==
    /\ NumDefines(scopes) < MaxDefines
    /\ \E s \in 1..Len(scopes), n \in Vars :
          /\ scopes' = PseudopDefine(scopes, s, n)
          /\ last' = Did("pseudop_define", s, n, TRUE)
    /\ UNCHANGED <<compiler, frames, expr, pc, depth, iters, err, level, reader, stream>>

ScopeNext ==
    \/ ScopeChild
    \/ ScopeRequestVar
    \/ ScopeRequestCell
    \/ ScopeDeclareVar
    \/ ScopePseudopDefine

SpecScope == ScopeInit /\ [][ScopeNext]_vars

-----------------------------------------------------------------------------
(* The compile specification: compile_from_ast is called on expressions    *)
(* of growing nesting; each step compiles the previous expression wrapped  *)
(* in one more form, in a fresh environment.                               *)

X == Sym("x")
Y == Sym("y")

Atoms == {X, Nil, List(<<Sym("begin")>>), List(<<Sym("cond")>>)}

CallForms(e) == {List(<<X, e, Num(1)>>)}

QuoteForms(e) == {List(<<Sym("quote"), e>>), Cons(Sym("quote"), e)}

QuasiquoteForms(e) ==
    {Cons(Sym("quasiquote"), e),
     List(<<Sym("quasiquote"), List(<<Sym("unquote"), e>>)>>),
     List(<<Sym("quasiquote"), X, Cons(Sym("unquote"), Cons(Sym("splice"), e))>>)}

BeginForms(e) == {List(<<Sym("begin"), X, e>>)}

Formals == {Nil, List(<<X>>), List(<<X, Y>>), X, Cons(Y, X), Num(1)}

LambdaForms(e) == {List(<<Sym("lambda"), f, e>>) : f \in Formals}

LetForms(e) == {List(<<Sym("let"), List(<<List(<<X, e>>)>>), e>>)}

WhileForms(e) == {List(<<Sym("while"), X, e>>), List(<<Sym("while"), e, X>>)}

\* the last form has its else clause before the last clause
CondForms(e) ==
    {List(<<Sym("cond"), List(<<X, e>>)>>),
     List(<<Sym("cond"), List(<<e, Num(1)>>), List(<<Sym("else"), e>>)>>),
     List(<<Sym("cond"), List(<<Sym("else"), e>>), List(<<X, Num(1)>>)>>)}

SetfForms(e) == {List(<<Sym("set-var"), X, e>>)}

DefineForms(e) == {List(<<Sym("define"), X, e>>)}

DefunForms(e) == {List(<<Sym("defun"), Sym("f"), List(<<X>>), e>>)}

DefmacroForms(e) == {List(<<Sym("defmacro"), Sym("f"), List(<<X>>), e>>)}

\* the environment before compile_from_ast: no code space, no __compiler__
NoSpaces == [scopes |-> <<>>, compiler |-> 0, err |-> ""]

\* what a call leaves behind: the code spaces, env["__compiler__"] and the
\* exception it raised
Leaves(st) ==
    /\ scopes' = st.scopes
    /\ compiler' = st.compiler
    /\ err' = st.err

\* compile_from_ast(e, env) in a fresh environment
Compiles(e) ==
    /\ expr' = e
    /\ Leaves(CompileFromAst(NoSpaces, e))
    /\ level' = level + 1
    /\ UNCHANGED <<frames, last, pc, depth, iters, reader, stream>>

\* the state compile_from_ast(e, env) ends in
Compiled(st) ==
    /\ scopes = st.scopes
    /\ compiler = st.compiler
    /\ err = st.err

CompileInit ==
    /\ expr \in Atoms
    /\ Compiled(CompileFromAst(NoSpaces, expr))
    /\ level = 0
    /\ frames = <<>>
    /\ last = NoOp
    /\ pc = 0
    /\ depth = 0
    /\ iters = 0
    /\ reader = 0
    /\ stream = <<>>

CompileCall == level < MaxLevel /\ \E e \in CallForms(expr) : Compiles(e)

CompileQuote == level < MaxLevel /\ \E e \in QuoteForms(expr) : Compiles(e)

CompileQuasiquote ==
    level < MaxLevel /\ \E e \in QuasiquoteForms(expr) : Compiles(e)

CompileBegin == level < MaxLevel /\ \E e \in BeginForms(expr) : Compiles(e)

CompileLambda == level < MaxLevel /\ \E e \in LambdaForms(expr) : Compiles(e)

CompileLet == level < MaxLevel /\ \E e \in LetForms(expr) : Compiles(e)

CompileWhile == level < MaxLevel /\ \E e \in WhileForms(expr) : Compiles(e)

CompileCond == level < MaxLevel /\ \E e \in CondForms(expr) : Compiles(e)

CompileSetf == level < MaxLevel /\ \E e \in SetfForms(expr) : Compiles(e)

CompileDefine == level < MaxLevel /\ \E e \in DefineForms(expr) : Compiles(e)

CompileDefun == level < MaxLevel /\ \E e \in DefunForms(expr) : Compiles(e)

CompileDefmacro ==
    level < MaxLevel /\ \E e \in DefmacroForms(expr) : Compiles(e)

CompileNext ==
    \/ CompileCall
    \/ CompileQuote
    \/ CompileQuasiquote
    \/ CompileBegin
    \/ CompileLambda
    \/ CompileLet
    \/ CompileWhile
    \/ CompileCond
    \/ CompileSetf
    \/ CompileDefine
    \/ CompileDefun
    \/ CompileDefmacro

SpecCompile == CompileInit /\ [][CompileNext]_vars

-----------------------------------------------------------------------------
(* The run specification: a cond or while form, alone or as the argument   *)
(* of a call, is compiled and the pseudo-ops of the root code space are    *)
(* followed one at a time; a conditional jump goes either way.             *)

\* cond forms whose else clause, if any, is the last clause
CondShapes(e) ==
    {List(<<Sym("cond"), List(<<X, e>>)>>),
     List(<<Sym("cond"), List(<<X, Num(1)>>), List(<<e, X>>)>>),
     List(<<Sym("cond"), List(<<e, Num(1)>>), List(<<Sym("else"), e>>)>>)}

WhileShapes(e) ==
    {List(<<Sym("while"), X, e>>),
     List(<<Sym("while"), e, X>>),
     List(<<Sym("while"), X, e, e>>)}

InnerForms ==
    {X, List(<<X, Num(1)>>)} \cup CondShapes(X) \cup WhileShapes(X)

OuterForms == UNION {CondShapes(e) \cup WhileShapes(e) : e \in InnerForms}

RunForms == OuterForms \cup {List(<<X, f>>) : f \in OuterForms}

\* the form under observation and the stack depth at its first pseudo-op
Form(e) == IF IsSymbol(e.head) /\ e.head.n = "x" THEN e.tail.head ELSE e

EntryDepth(e) == IF IsSymbol(e.head) /\ e.head.n = "x" THEN 1 ELSE 0

Ops == scopes[1].pseudops

LabelIndex(ops, l) ==
    CHOOSE i \in DOMAIN ops : ops[i].op = "LABEL" /\ ops[i].arg = l

\* values a pseudo-op takes from the stack and leaves on it
Pops(o) ==
    IF o.op = "CALL" THEN o.arg + 1
    ELSE IF o.op = "CALL_VARARGS" THEN 2
    ELSE IF o.op \in {"BUILD_TUPLE", "BUILD_TUPLE_UNPACK"} THEN o.arg
    ELSE IF o.op \in {"SET_VAR", "DEFINE", "POP", "RET_VAL",
                      "POP_JUMP_IF_TRUE", "POP_JUMP_IF_FALSE"} THEN 1
    ELSE 0

Pushes(o) ==
    IF o.op \in {"CALL", "CALL_VARARGS", "BUILD_TUPLE", "BUILD_TUPLE_UNPACK",
                 "CONST", "GET_VAR", "LAMBDA", "DUP"} THEN 1
    ELSE 0

Running == err = "" /\ pc >= 1 /\ pc <= Len(Ops)

RunInit ==
    /\ expr = Nil
    /\ scopes = <<>>
    /\ compiler = 0
    /\ err = ""
    /\ pc = 0
    /\ depth = 0
    /\ iters = 0
    /\ level = 0
    /\ frames = <<>>
    /\ last = NoOp
    /\ reader = 0
    /\ stream = <<>>

\* compile_from_ast on one of the forms, when it raises nothing; the code
\* object is then run from its first pseudo-op
RunCompile ==
    /\ pc = 0
    /\ \E e \in RunForms :
          /\ expr' = e
          /\ Leaves(CompileFromAst(NoSpaces, e))
    /\ err' = ""
    /\ pc' = 1
    /\ UNCHANGED <<frames, last, depth, iters, level, reader, stream>>

\* a pseudo-op that does not transfer control
RunOp ==
    /\ Running
    /\ Ops[pc].op \notin {"LABEL", "POSITION", "JUMP", "POP_JUMP_IF_TRUE",
                          "POP_JUMP_IF_FALSE", "RET_VAL"}
    /\ depth >= Pops(Ops[pc])
    /\ depth' = depth - Pops(Ops[pc]) + Pushes(Ops[pc])
    /\ pc' = pc + 1
    /\ UNCHANGED <<scopes, compiler, frames, last, expr, iters, err, level, reader, stream>>

\* LABEL and POSITION produce no instruction
RunLabel ==
    /\ Running
    /\ Ops[pc].op \in {"LABEL", "POSITION"}
    /\ pc' = pc + 1
    /\ UNCHANGED <<scopes, compiler, frames, last, expr, depth, iters, err, level, reader, stream>>

RunJump ==
    /\ Running
    /\ Ops[pc].op = "JUMP"
    /\ LET to == LabelIndex(Ops, Ops[pc].arg)
       IN  /\ to < pc => iters < MaxIters
           /\ pc' = to
           /\ iters' = IF to < pc THEN iters + 1 ELSE iters
    /\ UNCHANGED <<scopes, compiler, frames, last, expr, depth, err, level, reader, stream>>

\* POP_JUMP_IF_FALSE on a false value
RunBranchTaken ==
    /\ Running
    /\ Ops[pc].op = "POP_JUMP_IF_FALSE"
    /\ depth >= 1
    /\ depth' = depth - 1
    /\ pc' = LabelIndex(Ops, Ops[pc].arg)
    /\ UNCHANGED <<scopes, compiler, frames, last, expr, iters, err, level, reader, stream>>

\* POP_JUMP_IF_FALSE on a true value
RunBranchFallsThrough ==
    /\ Running
    /\ Ops[pc].op = "POP_JUMP_IF_FALSE"
    /\ depth >= 1
    /\ depth' = depth - 1
    /\ pc' = pc + 1
    /\ UNCHANGED <<scopes, compiler, frames, last, expr, iters, err, level, reader, stream>>

RunReturn ==
    /\ Running
    /\ Ops[pc].op = "RET_VAL"
    /\ depth >= 1
    /\ depth' = depth - 1
    /\ pc' = Len(Ops) + 1
    /\ UNCHANGED <<scopes, compiler, frames, last, expr, iters, err, level, reader, stream>>

\* a pseudo-op that needs more values than the stack holds
RunUnderflow ==
    /\ Running
    /\ depth < Pops(Ops[pc])
    /\ err' = "stack underflow"
    /\ UNCHANGED <<scopes, compiler, frames, last, expr, pc, depth, iters, level, reader, stream>>

RunNext ==
    \/ RunCompile
    \/ RunOp
    \/ RunLabel
    \/ RunJump
    \/ RunBranchTaken
    \/ RunBranchFallsThrough
    \/ RunReturn
    \/ RunUnderflow

SpecRun == RunInit /\ [][RunNext]_vars

-----------------------------------------------------------------------------
(* The activation specification: activate blocks are entered and left, by  *)
(* compile_from_ast for a root and by child_context for a child, and the   *)
(* operations that require an active code space are called on any code     *)
(* space, inside or outside its block.                                     *)

St == [scopes |-> scopes, compiler |-> compiler, err |-> err]

\* the activate block of code space s is executing
Executing(s) == \E i \in DOMAIN frames : frames[i].space = s

\* what a call of op on code space s leaves in last
Called(op, s) == [op |-> op, s |-> s, active |-> Executing(s)]

TotalOps(sc) == NumDefines(sc)

ActivateInit ==
    /\ scopes = <<>>
    /\ compiler = 0
    /\ err = ""
    /\ frames = <<>>
    /\ last = [op |-> "none", s |-> 0, active |-> FALSE]
    /\ expr = Nil
    /\ pc = 0
    /\ depth = 0
    /\ iters = 0
    /\ level = 0
    /\ reader = 0
    /\ stream = <<>>

\* compile_from_ast up to the entry of its with block: a root code space is
\* created and activate runs up to its yield
ActivateRoot ==
    /\ err = ""
    /\ frames = <<>>
    /\ Len(scopes) < MaxSpaces
    /\ LET k   == Len(scopes) + 1
           st1 == Activate([St EXCEPT !.scopes =
                               Append(@, NewCodeSpace(0, <<>>, FALSE))], k)
       IN  /\ scopes' = st1.scopes
           /\ compiler' = st1.compiler
           /\ frames' = <<[space |-> k, old |-> compiler]>>
           /\ last' = [op |-> "activate", s |-> k, active |-> FALSE]
    /\ UNCHANGED <<expr, pc, depth, iters, err, level, reader, stream>>

\* with s.child_context(...) as subc, up to the entry of the block
ActivateChild ==
    /\ err = ""
    /\ Len(scopes) < MaxSpaces
    /\ \E s \in DOMAIN scopes :
          LET k   == Len(scopes) + 1
              st1 == ChildContext(St, s, <<>>, FALSE, "<lambda>", 0)
              st2 == IF Ok(st1) THEN Activate(st1, k) ELSE st1
          IN  /\ scopes' = st2.scopes
              /\ compiler' = st2.compiler
              /\ err' = st2.err
              /\ frames' = IF Ok(st1)
                           THEN Append(frames, [space |-> k, old |-> compiler])
                           ELSE frames
              /\ last' = Called("child_context", s)
    /\ UNCHANGED <<expr, pc, depth, iters, level, reader, stream>>

\* s.add_expression(x)
ActivateAddExpression ==
    /\ err = ""
    /\ TotalOps(scopes) < MaxOps
    /\ \E s \in DOMAIN scopes :
          /\ Leaves(Execute(AddExpression(Machine(St, <<>>), s, X), 16))
          /\ last' = Called("add_expression", s)
    /\ UNCHANGED <<frames, expr, pc, depth, iters, level, reader, stream>>

\* s.find_special(namesym)
ActivateFindSpecial ==
    /\ err = ""
    /\ \E s \in DOMAIN scopes : \E n \in {"x", "quote"} :
          LET f == FindSpecial(St, s, Sym(n))
          IN  /\ scopes' = f.st.scopes
              /\ compiler' = f.st.compiler
              /\ err' = f.st.err
              /\ last' = Called("find_special", s)
    /\ UNCHANGED <<frames, expr, pc, depth, iters, level, reader, stream>>

\* s.complete()
ActivateComplete ==
    /\ err = ""
    /\ \E s \in DOMAIN scopes :
          LET r == Complete(St, s)
          IN  /\ scopes' = r.st.scopes
              /\ compiler' = r.st.compiler
              /\ err' = r.st.err
              /\ last' = Called("complete", s)
    /\ UNCHANGED <<frames, expr, pc, depth, iters, level, reader, stream>>

\* the body of the innermost block raises
ActivateRaise ==
    /\ err = ""
    /\ frames # <<>>
    /\ err' = "SyntaxError"
    /\ last' = [op |-> "raise", s |-> frames[Len(frames)].space, active |-> TRUE]
    /\ UNCHANGED <<scopes, compiler, frames, expr, pc, depth, iters, level, reader, stream>>

\* the innermost block is left: the finally clause of activate runs, after
\* the body has ended or while an exception propagates out of it
ActivateExit ==
    /\ frames # <<>>
    /\ LET top == frames[Len(frames)]
           st1 == Deactivate(St, top.space, top.old)
       IN  /\ scopes' = st1.scopes
           /\ compiler' = st1.compiler
           /\ frames' = SubSeq(frames, 1, Len(frames) - 1)
           /\ last' = [op |-> "exit", s |-> top.space, active |-> TRUE]
    /\ UNCHANGED <<expr, pc, depth, iters, err, level, reader, stream>>

\* the caller of compile_from_ast, or of an operation called outside every
\* block, handles the exception
ActivateCatch ==
    /\ err # ""
    /\ frames = <<>>
    /\ err' = ""
    /\ last' = [op |-> "catch", s |-> 0, active |-> FALSE]
    /\ UNCHANGED <<scopes, compiler, frames, expr, pc, depth, iters, level, reader, stream>>

ActivateNext ==
    \/ ActivateRoot
    \/ ActivateChild
    \/ ActivateAddExpression
    \/ ActivateFindSpecial
    \/ ActivateComplete
    \/ ActivateRaise
    \/ ActivateExit
    \/ ActivateCatch

SpecActivate == ActivateInit /\ [][ActivateNext]_vars

-----------------------------------------------------------------------------
(* Claims about the classification of names.                               *)

\* the lists of code space s that hold n
ListsHolding(sc, s, n) ==
    {k \in {"fast", "cell", "free", "global"} :
        \/ k = "fast" /\ In(sc[s].fast_vars, n)
        \/ k = "cell" /\ In(sc[s].cell_vars, n)
        \/ k = "free" /\ In(sc[s].free_vars, n)
        \/ k = "global" /\ In(sc[s].global_vars, n)}

\* the nearest proper ancestor of s that holds n in one of its lists, or 0
RECURSIVE NearestClassifier(_, _, _)
NearestClassifier(sc, s, n) ==
    IF sc[s].parent = 0 THEN 0
    ELSE IF Classified(sc, sc[s].parent, n) THEN sc[s].parent
    ELSE NearestClassifier(sc, sc[s].parent, n)

RECURSIVE Ancestors(_, _)
Ancestors(sc, s) ==
    IF sc[s].parent = 0 THEN {}
    ELSE {sc[s].parent} \cup Ancestors(sc, sc[s].parent)

\* the code spaces strictly between ancestor a and its descendant s
Between(sc, a, s) == {m \in Ancestors(sc, s) : a \in Ancestors(sc, m)}

\* C1: in every code space, after any sequence of request_var, request_cell,
\* declare_var and pseudop_define calls, each name is in at most one of
\* fast_vars, cell_vars, free_vars and global_vars.
C1_OneListPerName ==
    \A s \in DOMAIN scopes : \A n \in Vars :
        Cardinality(ListsHolding(scopes, s, n)) <= 1

\* C2: when a code space calls request_var(n) for a name it has not
\* classified and the nearest ancestor that has classified n holds it in
\* fast_vars, then afterwards n is in that ancestor's cell_vars and not in
\* its fast_vars, n is in free_vars of every code space strictly between,
\* and n is in free_vars of the requesting code space.
C2_PromotesNearestLocal ==
    [][\A s \in DOMAIN scopes : \A n \in Vars :
          LET a == NearestClassifier(scopes, s, n) IN
          (/\ last'.op = "request_var" /\ last'.s = s /\ last'.n = n
           /\ ~Classified(scopes, s, n)
           /\ a # 0
           /\ In(scopes[a].fast_vars, n))
          => /\ In(scopes'[a].cell_vars, n)
             /\ ~In(scopes'[a].fast_vars, n)
             /\ \A m \in Between(scopes, a, s) : In(scopes'[m].free_vars, n)
             /\ In(scopes'[s].free_vars, n)]_vars

\* C3: request_cell(n) on a code space that has n in global_vars answers
\* false and changes no code space; a descendant that has not classified n
\* and whose nearest classifying ancestor holds n in global_vars gets n in
\* its global_vars and names by request_var(n), and nothing else changes,
\* whatever a more distant ancestor holds.
C3_GlobalIsNeverCaptured ==
    [][\A s \in DOMAIN scopes : \A n \in Vars :
          /\ (/\ last'.op = "request_cell" /\ last'.s = s /\ last'.n = n
               /\ In(scopes[s].global_vars, n))
              => (last'.ok = FALSE /\ scopes' = scopes)
          /\ LET a == NearestClassifier(scopes, s, n) IN
              (/\ last'.op = "request_var" /\ last'.s = s /\ last'.n = n
               /\ ~Classified(scopes, s, n)
               /\ a # 0
               /\ In(scopes[a].global_vars, n))
              => scopes' = [scopes EXCEPT ![s].global_vars = Append(@, n),
                                          ![s].names = ListUniqueAppend(@, n)]]_vars

\* a grandchild classified n as global below a parent that holds n as a
\* global, while the root holds n as a local
C3_Witness ==
    /\ last.op = "request_var" /\ last.fresh
    /\ Len(scopes) >= 3 /\ last.s = 3
    /\ In(scopes[3].global_vars, last.n) /\ In(scopes[3].names, last.n)
    /\ In(scopes[2].global_vars, last.n) /\ ListsHolding(scopes, 2, last.n) = {"global"}
    /\ ListsHolding(scopes, 1, last.n) = {"fast"}

\* C4: request_var(n) on a code space that already holds n in one of its
\* four lists changes no list of any code space.
C4_RequestVarIdempotent ==
    [][\A s \in DOMAIN scopes : \A n \in Vars :
          (/\ last'.op = "request_var" /\ last'.s = s /\ last'.n = n
           /\ Classified(scopes, s, n))
          => scopes' = scopes]_vars

\* a formal that shadows the local of an ancestor was requested again and
\* the ancestor's local is still a fast variable
C4_Witness ==
    /\ last.op = "request_var" /\ ~last.fresh
    /\ last.s > 1
    /\ In(scopes[last.s].args, last.n)
    /\ ListsHolding(scopes, last.s, last.n) = {"fast"}
    /\ \E a \in Ancestors(scopes, last.s) : ListsHolding(scopes, a, last.n) = {"fast"}

-----------------------------------------------------------------------------
(* Claims about the emitted pseudo-ops.                                    *)

\* C5: for every expression built from calls, symbols, constants and the
\* special forms quote, quasiquote, begin, lambda, let, while, cond,
\* set-var, define, defun and defmacro, the buffer of each code space that
\* compiled successfully makes max_stack keep its depth non-negative at
\* every step and end at depth zero.
C5_MaxStackClosesAtZero ==
    \A s \in DOMAIN scopes :
        scopes[s].completed =>
            /\ ~MaxStackWalk(scopes[s].pseudops).failed
            /\ MaxStackWalk(scopes[s].pseudops).stac = 0

HasOp(s, op) == \E i \in DOMAIN scopes[s].pseudops : scopes[s].pseudops[i].op = op

\* a function whose body loops or branches, compiled without error
C5_Witness ==
    /\ err = ""
    /\ level = 2
    /\ Len(scopes) = 2
    /\ scopes[1].completed /\ scopes[2].completed
    /\ HasOp(2, "JUMP") /\ HasOp(2, "POP_JUMP_IF_FALSE")
    /\ HasOp(1, "LAMBDA")

\* the form under observation is a cond, a while
IsCond(e) == IsPair(e) /\ IsSym(e.head, "cond")

IsWhile(e) == IsPair(e) /\ IsSym(e.head, "while")

\* the interpreter has reached the done label of the form under observation:
\* the form is the first to generate labels, its done label is the second
AtDone == Running /\ Ops[pc].op = "LABEL" /\ Ops[pc].arg = 2

\* C6: in the pseudo-ops emitted for a cond form, every path from the start
\* of the form to its done label leaves exactly one value on the stack above
\* the entry depth, also when the test of every clause is false.
C6_CondLeavesOneValue ==
    (pc >= 1 /\ IsCond(Form(expr)) /\ AtDone) => depth = EntryDepth(expr) + 1

\* the positions of the pseudo-ops op with argument l
OpsAt(ops, op, l) == {i \in DOMAIN ops : ops[i].op = op /\ ops[i].arg = l}

\* the while form that generated labels 1 (top) and 2 (done): one JUMP to
\* top after the label top, one POP_JUMP_IF_FALSE to done between them, the
\* label done after the JUMP
WhileIsShaped(ops) ==
    /\ Cardinality(OpsAt(ops, "JUMP", 1)) = 1
    /\ Cardinality(OpsAt(ops, "POP_JUMP_IF_FALSE", 2)) = 1
    /\ \A j \in OpsAt(ops, "JUMP", 1) : \A b \in OpsAt(ops, "POP_JUMP_IF_FALSE", 2) :
          /\ LabelIndex(ops, 1) < b
          /\ b < j
          /\ j < LabelIndex(ops, 2)

\* C7: in the pseudo-ops emitted for a while form the JUMP targets a label
\* placed before the test, the single POP_JUMP_IF_FALSE targets a label
\* placed after that JUMP, and on every path, after zero or more iterations,
\* exactly one value is on the stack above the entry depth at the done label.
C7_WhileLeavesOneValue ==
    (pc >= 1 /\ IsWhile(Form(expr))) =>
        /\ WhileIsShaped(Ops)
        /\ AtDone => depth = EntryDepth(expr) + 1

LabelDefs(ops, l) == {i \in DOMAIN ops : ops[i].op = "LABEL" /\ ops[i].arg = l}

JumpTargets(ops) ==
    {ops[i].arg : i \in {j \in DOMAIN ops :
        ops[j].op \in {"JUMP", "POP_JUMP_IF_TRUE", "POP_JUMP_IF_FALSE"}}}

DefinedLabels(ops) == {ops[i].arg : i \in {j \in DOMAIN ops : ops[j].op = "LABEL"}}

\* C8: in the buffer of every code space compiled from any nesting of while
\* and cond forms, each label named by a JUMP, POP_JUMP_IF_TRUE or
\* POP_JUMP_IF_FALSE is defined by exactly one LABEL of the same buffer, and
\* no label is defined twice in one buffer.
C8_LabelsDefinedOnce ==
    \A s \in DOMAIN scopes :
        scopes[s].completed =>
            /\ \A l \in JumpTargets(scopes[s].pseudops) :
                  Cardinality(LabelDefs(scopes[s].pseudops, l)) = 1
            /\ \A l \in DefinedLabels(scopes[s].pseudops) :
                  Cardinality(LabelDefs(scopes[s].pseudops, l)) = 1

\* a while nested in a cond, or a cond in a while, in one completed buffer
C8_Witness ==
    /\ err = ""
    /\ scopes[1].completed
    /\ Cardinality(DefinedLabels(scopes[1].pseudops)) >= 5
    /\ Cardinality(JumpTargets(scopes[1].pseudops)) >= 4
    /\ \E i \in DOMAIN scopes[1].pseudops :
          /\ scopes[1].pseudops[i].op = "JUMP"
          /\ LabelIndex(scopes[1].pseudops, scopes[1].pseudops[i].arg) < i

-----------------------------------------------------------------------------
(* Claims about activation.                                                *)

\* C9: when the activate block of a code space exits, normally or by an
\* exception raised inside it, env["__compiler__"] is the value it had
\* before the block was entered (absent if it was absent) and the env of
\* the code space is None.
C9_ExitRestoresCompiler ==
    [][last'.op = "exit" /\ frames # <<>> =>
          /\ compiler' = frames[Len(frames)].old
          /\ ~scopes'[frames[Len(frames)].space].env
          /\ frames[Len(frames)].space = last'.s]_vars

\* an exception has left the block of a child and the parent is the
\* compiler again
C9_Witness ==
    /\ last.op = "exit"
    /\ err # ""
    /\ compiler # 0
    /\ frames # <<>>
    /\ compiler = frames[Len(frames)].space
    /\ scopes[last.s].parent # 0

\* C10: the env of a code space is not None exactly while its activate
\* block is executing, and add_expression, find_special, child_context and
\* complete raise and emit nothing when called on a code space whose block
\* is not executing.
C10_ActiveExactlyInBlock ==
    /\ [](\A s \in DOMAIN scopes : scopes[s].env <=> Executing(s))
    /\ [][(/\ last'.op \in {"add_expression", "find_special",
                            "child_context", "complete"}
           /\ ~Executing(last'.s))
          => (err' # "" /\ scopes' = scopes /\ compiler' = compiler)]_vars

\* complete has just raised on a code space whose block was left, while
\* another block is executing
C10_Witness ==
    /\ last.op = "complete"
    /\ ~last.active
    /\ err # ""
    /\ frames # <<>>
    /\ scopes[last.s].pseudops # <<>>

-----------------------------------------------------------------------------
(* The reader: atoms.                                                      *)
(* An atom is the sequence of its characters.  A regular expression is     *)
(* modelled by the set of lengths of the prefixes of the atom it can       *)
(* match: regex.match, which the reader calls, succeeds when that set is   *)
(* not empty; the expression accepts the full atom when the length of the  *)
(* atom is in the set.                                                     *)

\* characters of one atom in the atom specification
MaxAtomLen == 4

\* the characters atoms are written with in the atom specification
AtomChars == {"0", "1", "2", "a", "/", ".", ":", "-", "+", "i", "x"}

DecDigits == <<"0", "1", "2", "3", "4", "5", "6", "7", "8", "9">>

Digit == {DecDigits[i] : i \in DOMAIN DecDigits}

HexDigit == Digit \cup {"a", "b", "c", "d", "e", "f"}

OctDigit == {"0", "1", "2", "3", "4", "5", "6", "7"}

BinDigit == {"0", "1"}

\* the positions reached from a position of P by one character of the set cs
One(P, s, cs) == {p + 1 : p \in {q \in P : q < Len(s) /\ s[q + 1] \in cs}}

\* the regular expression c? for a character c
Opt(P, s, c) == P \cup One(P, s, {c})

\* the regular expression [cs]*
Star(P, s, cs) ==
    {q \in 0..Len(s) : \E p \in P : p <= q /\ \A j \in (p + 1)..q : s[j] \in cs}

\* the regular expression [cs]+
Plus(P, s, cs) == Star(One(P, s, cs), s, cs)

\* _integer_re, -?\d+
IntegerEnds(s) == Plus(Opt({0}, s, "-"), s, Digit)

\* _bin_re, 0b[01]+
BinEnds(s) == Plus(One(One({0}, s, {"0"}), s, {"b"}), s, BinDigit)

\* _oct_re, 0o[0-7]+
OctEnds(s) == Plus(One(One({0}, s, {"0"}), s, {"o"}), s, OctDigit)

\* _hex_re, 0x[\da-f]+
HexEnds(s) == Plus(One(One({0}, s, {"0"}), s, {"x"}), s, HexDigit)

\* (\d*\.\d+|\d+\.\d*) after the prefixes P
Mantissa(P, s) ==
    Plus(One(Star(P, s, Digit), s, {"."}), s, Digit)
        \cup Star(One(Plus(P, s, Digit), s, {"."}), s, Digit)

\* e-?\d+ after the prefixes P
Exponent(P, s) == Plus(Opt(One(P, s, {"e"}), s, "-"), s, Digit)

\* _float_re, -?((\d*\.\d+|\d+\.\d*)(e-?\d+)?|(\d+e-?\d+))
FloatEnds(s) ==
    Mantissa(Opt({0}, s, "-"), s)
        \cup Exponent(Mantissa(Opt({0}, s, "-"), s), s)
        \cup Exponent(Plus(Opt({0}, s, "-"), s, Digit), s)

\* _fraction_re, -?\d+/\d+
FractionEnds(s) ==
    Plus(One(Plus(Opt({0}, s, "-"), s, Digit), s, {"/"}), s, Digit)

\* -?\d*\.?\d+\+ , the real part and the sign of a complex literal
ComplexReal(s) ==
    One(Plus(Opt(Star(Opt({0}, s, "-"), s, Digit), s, "."), s, Digit), s, {"+"})

\* _complex_re, -?\d*\.?\d+\+\d*\.?\d*[ij]
ComplexEnds(s) ==
    One(Star(Opt(Star(ComplexReal(s), s, Digit), s, "."), s, Digit), s, {"i", "j"})

\* _keyword_re, ^(:.+|.+:)$
KeywordEnds(s) ==
    IF Len(s) >= 2 /\ (s[1] = ":" \/ s[Len(s)] = ":") THEN {Len(s)} ELSE {}

\* the prefixes of atom s matched by the regular expression of pattern name
Ends(name, s) ==
    CASE name = "fraction" -> FractionEnds(s)
      [] name = "complex"  -> ComplexEnds(s)
      [] name = "float"    -> FloatEnds(s)
      [] name = "binary"   -> BinEnds(s)
      [] name = "oct"      -> OctEnds(s)
      [] name = "hex"      -> HexEnds(s)
      [] name = "int"      -> IntegerEnds(s)
      [] name = "keyword"  -> KeywordEnds(s)
      [] OTHER             -> {}

\* match(atom) of a pattern: regex.match finds a match at the start of the atom
Matches(name, s) == Ends(name, s) # {}

\* the regular expression of a pattern accepts the full atom
Accepts(name, s) == Len(s) \in Ends(name, s)

\* the characters of an atom as one string
RECURSIVE Text(_)
Text(s) == IF s = <<>> THEN "" ELSE Head(s) \o Text(Tail(s))

DigitVal(c) == (CHOOSE i \in DOMAIN DecDigits : DecDigits[i] = c) - 1

\* the number written by the decimal digits s[lo..hi]
RECURSIVE DecVal(_, _, _)
DecVal(s, lo, hi) ==
    IF hi < lo THEN 0 ELSE DecVal(s, lo, hi - 1) * 10 + DigitVal(s[hi])

HexVal(c) ==
    IF c \in Digit THEN DigitVal(c)
    ELSE 9 + (CHOOSE i \in 1..6 : <<"a", "b", "c", "d", "e", "f">>[i] = c)

\* the number written in base b by the digits s[lo..hi]
RECURSIVE BaseVal(_, _, _, _)
BaseVal(s, lo, hi, b) ==
    IF hi < lo THEN 0 ELSE BaseVal(s, lo, hi - 1, b) * b + HexVal(s[hi])

RECURSIVE Gcd(_, _)
Gcd(a, b) == IF b = 0 THEN a ELSE Gcd(b, a % b)

\* what a conversion function gives: a value, or the exception it raises
Converted(v) == [ok |-> TRUE, v |-> v, exc |-> ""]

ConvRaises(exc) == [ok |-> FALSE, v |-> Nil, exc |-> exc]

Signed(s, n) == IF s[1] = "-" THEN 0 - n ELSE n

Unsigned(s) == IF s[1] = "-" THEN 1 ELSE 0

\* _as_integer = int: a decimal literal, ValueError for anything else
AsInteger(s) ==
    IF Accepts("int", s)
    THEN Converted(Num(Signed(s, DecVal(s, Unsigned(s) + 1, Len(s)))))
    ELSE ConvRaises("ValueError")

\* _as_bin = partial(int, base=2)
AsBin(s) ==
    IF Accepts("binary", s) THEN Converted(Num(BaseVal(s, 3, Len(s), 2)))
    ELSE ConvRaises("ValueError")

\* _as_oct = partial(int, base=8)
AsOct(s) ==
    IF Accepts("oct", s) THEN Converted(Num(BaseVal(s, 3, Len(s), 8)))
    ELSE ConvRaises("ValueError")

\* _as_hex = partial(int, base=16)
AsHex(s) ==
    IF Accepts("hex", s) THEN Converted(Num(BaseVal(s, 3, Len(s), 16)))
    ELSE ConvRaises("ValueError")

\* an optional sign, then \d*\.\d+ or \d+\.\d* or \d+
FloatDigits(s) ==
    Mantissa(Opt(Opt({0}, s, "-"), s, "+"), s)
        \cup Plus(Opt(Opt({0}, s, "-"), s, "+"), s, Digit)

\* the strings float() takes: [+-]?(\d*\.\d+|\d+\.\d*|\d+)(e[+-]?\d+)?
FloatLiteralEnds(s) ==
    FloatDigits(s)
        \cup Plus(Opt(Opt(One(FloatDigits(s), s, {"e"}), s, "-"), s, "+"), s, Digit)

\* _as_float = float; the value is kept as the literal it was written with
AsFloat(s) ==
    IF Len(s) \in FloatLiteralEnds(s)
    THEN Converted([t |-> "const", c |-> [k |-> "float", v |-> 0, s |-> Text(s)]])
    ELSE ConvRaises("ValueError")

\* _as_complex: a trailing i is replaced by j, then complex(); an imaginary
\* part that is a lone "." is not a number
AsComplex(s) ==
    IF Accepts("complex", s)
       /\ ~(Len(s) >= 3 /\ s[Len(s) - 1] = "." /\ s[Len(s) - 2] = "+")
    THEN Converted([t |-> "const", c |-> [k |-> "complex", v |-> 0, s |-> Text(s)]])
    ELSE ConvRaises("ValueError")

\* the position of the "/" of a fraction literal
Slash(s) == CHOOSE i \in DOMAIN s : s[i] = "/"

\* fraction(s) for s = n/d: ValueError when s is not a literal,
\* ZeroDivisionError when d is zero, else the reduced numerator and denominator
\* as the form (fraction NUMERATOR DENOMINATOR)
FractionForm(n, d, minus) ==
    List(<<Sym("fraction"),
           Num(IF minus THEN 0 - (n \div Gcd(n, d)) ELSE n \div Gcd(n, d)),
           Num(d \div Gcd(n, d))>>)

AsFraction(s) ==
    IF ~Accepts("fraction", s) THEN ConvRaises("ValueError")
    ELSE IF DecVal(s, Slash(s) + 1, Len(s)) = 0 THEN ConvRaises("ZeroDivisionError")
    ELSE Converted(FractionForm(DecVal(s, Unsigned(s) + 1, Slash(s) - 1),
                                DecVal(s, Slash(s) + 1, Len(s)), s[1] = "-"))

\* keyword(atom)
AsKeyword(s) == Converted([t |-> "keyword", n |-> Text(s)])

\* symbol(atom)
AsSymbol(s) == Converted(Sym(Text(s)))

\* conv(atom) for the conversion function of pattern name
Conv(name, s) ==
    CASE name = "fraction" -> AsFraction(s)
      [] name = "complex"  -> AsComplex(s)
      [] name = "float"    -> AsFloat(s)
      [] name = "binary"   -> AsBin(s)
      [] name = "oct"      -> AsOct(s)
      [] name = "hex"      -> AsHex(s)
      [] name = "int"      -> AsInteger(s)
      [] name = "keyword"  -> AsKeyword(s)
      [] OTHER             -> AsSymbol(s)

-----------------------------------------------------------------------------
(* The reader: its macros and patterns.                                    *)
(* A macro function is named by its method; a dict is a function on the    *)
(* set of its keys; None is the empty tuple.                               *)

EmptyDict == [c \in {} |-> ""]

\* the grave accent, a character that a string of this module cannot hold
Backquote == "backquote"

\* Reader.set_event_macro, for a char of one character
SetEventMacro(r, char, macro_fn, terminating) ==
    [r EXCEPT !.reader_macros =
                  [c \in (DOMAIN @) \cup {char} |-> IF c = char THEN macro_fn ELSE @[c]],
              !.terminating = IF terminating THEN Append(@, char) ELSE @]

\* Reader.get_event_macro
GetEventMacro(r, char) ==
    IF char \in DOMAIN r.reader_macros
    THEN <<r.reader_macros[char], In(r.terminating, char)>>
    ELSE <<>>

\* Reader.clear_event_macro; every macro of the model is terminating, so
\* terminating.remove finds the character
ClearEventMacro(r, char) ==
    IF char \in DOMAIN r.reader_macros
    THEN [r EXCEPT !.terminating = ListRemove(@, char),
                   !.reader_macros = [c \in (DOMAIN @) \ {char} |-> @[c]]]
    ELSE r

\* Reader.temporary_event_macro up to its yield
TemporaryEventMacro(r, char, macro_fn, terminating) ==
    [old |-> GetEventMacro(r, char),
     r   |-> SetEventMacro(r, char, macro_fn, terminating)]

\* Reader.temporary_event_macro after its yield, reached when the body of the
\* with statement ends without an exception
TemporaryEventMacroExit(r, char, old) ==
    IF old = <<>> THEN ClearEventMacro(r, char)
    ELSE SetEventMacro(r, char, old[1], old[2])

\* Reader.set_atom_pattern; a pattern is named by its symbol
SetAtomPattern(r, namesym) ==
    IF In(r.atom_patterns, namesym) THEN r
    ELSE [r EXCEPT !.atom_patterns = <<namesym>> \o @]

\* Reader._add_default_macros
AddDefaultMacros(r) ==
    SetEventMacro(SetEventMacro(SetEventMacro(SetEventMacro(SetEventMacro(SetEventMacro(r,
        "(", "_read_pair", TRUE),
        ")", "_close_paren", TRUE),
        "\"", "_read_string", TRUE),
        "'", "_read_quote", TRUE),
        Backquote, "_read_quasiquote", TRUE),
        ";", "_read_comment", TRUE)

\* Reader._add_default_atoms
AddDefaultAtoms(r) ==
    SetAtomPattern(SetAtomPattern(SetAtomPattern(SetAtomPattern(SetAtomPattern(
        SetAtomPattern(SetAtomPattern(SetAtomPattern(r,
        "keyword"), "int"), "hex"), "oct"), "binary"), "float"), "complex"), "fraction")

\* Reader.__init__
NewReader ==
    AddDefaultAtoms(AddDefaultMacros(
        [reader_macros |-> EmptyDict,
         atom_patterns |-> <<>>,
         terminating   |-> <<"\n", "\r", "\t", " ">>]))

\* the first pattern of the reader whose match(atom) is not None, "symbol"
\* when the loop over atom_patterns ends without a break
Pattern(r, s) ==
    IF \A i \in DOMAIN r.atom_patterns : ~Matches(r.atom_patterns[i], s)
    THEN "symbol"
    ELSE r.atom_patterns[CHOOSE i \in DOMAIN r.atom_patterns :
                             /\ Matches(r.atom_patterns[i], s)
                             /\ \A j \in 1..(i - 1) : ~Matches(r.atom_patterns[j], s)]

\* the first pattern of the reader whose regular expression accepts the full
\* atom, "symbol" when there is none
FullPattern(r, s) ==
    IF \A i \in DOMAIN r.atom_patterns : ~Accepts(r.atom_patterns[i], s)
    THEN "symbol"
    ELSE r.atom_patterns[CHOOSE i \in DOMAIN r.atom_patterns :
                             /\ Accepts(r.atom_patterns[i], s)
                             /\ \A j \in 1..(i - 1) : ~Accepts(r.atom_patterns[j], s)]

\* what a macro function gives to _read: an event and a value, or an exception
\* None
NoneV == [t |-> "none"]

Event(event, value, conv) == [event |-> event, value |-> value, conv |-> conv, exc |-> ""]

MacroRaises(exc, conv) == [event |-> "", value |-> Nil, conv |-> conv, exc |-> exc]

\* Reader._read_atom on the atom s
ReadAtom(r, s) ==
    IF s = <<".">> THEN Event("DOT", NoneV, "")
    ELSE IF Conv(Pattern(r, s), s).ok
    THEN Event("VALUE", Conv(Pattern(r, s), s).v, Pattern(r, s))
    ELSE MacroRaises(Conv(Pattern(r, s), s).exc, Pattern(r, s))

\* value.set_position(position) when the value is a pair
SetPosition(value, position) ==
    IF IsPair(value) THEN [value EXCEPT !.pos = position] ELSE value

\* what _read leaves: the event it returns with its position and value, or
\* op = "raise" with the position and message the exception carries; conv
\* names the conversion or the macro that made the value or raised
Returned(event, position, value, conv) ==
    [op |-> "_read", event |-> event, pos |-> position, value |-> value,
     conv |-> conv, msg |-> ""]

Raised(position, conv, msg) ==
    [op |-> "raise", event |-> "", pos |-> position, value |-> NoneV,
     conv |-> conv, msg |-> msg]

NoRead ==
    [op |-> "none", event |-> "", pos |-> 0, value |-> NoneV, conv |-> "", msg |-> ""]

\* the exception that leaves _read when the macro raised exc: a ValueError is
\* caught and raised again as stream.error(..., position)
ReadError(exc) == IF exc = "ValueError" THEN "ReaderSyntaxError" ELSE exc

\* Reader._read when the character read starts the atom s: the outcome of
\* _read_atom, after the except clause and set_position
ReadOfAtom(r, s, position) ==
    IF ReadAtom(r, s).exc # "" THEN Raised(position, ReadAtom(r, s).conv, "conversion")
    ELSE Returned(ReadAtom(r, s).event, position,
                  SetPosition(ReadAtom(r, s).value, position), ReadAtom(r, s).conv)

\* stream.position(): the number of the token the next read gives
Position(str) == str.pos + 1

-----------------------------------------------------------------------------
(* Specification of the atom reader: an atom is written into the stream    *)
(* character by character, then read once.                                 *)

IdleCompiler ==
    /\ scopes = <<>>
    /\ compiler = 0
    /\ frames = <<>>
    /\ expr = Nil
    /\ pc = 0
    /\ depth = 0
    /\ iters = 0
    /\ level = 0

AtomInit ==
    /\ reader = NewReader
    /\ stream = [data |-> <<>>, pos |-> 0, eof |-> FALSE]
    /\ last = NoRead
    /\ err = ""
    /\ IdleCompiler

\* the source gets one more character
AtomWrite ==
    /\ stream.pos = 0
    /\ \E c \in AtomChars :
          \/ /\ stream.data = <<>>
             /\ stream' = [stream EXCEPT !.data = <<<<c>>>>]
          \/ /\ stream.data # <<>>
             /\ Len(stream.data[1]) < MaxAtomLen
             /\ stream' = [stream EXCEPT !.data[1] = Append(@, c)]
    /\ UNCHANGED <<scopes, compiler, frames, last, expr, pc, depth, iters, err, level, reader>>

\* Reader._read on the stream holding the atom
AtomRead ==
    /\ stream.pos = 0
    /\ stream.data # <<>>
    /\ last' = ReadOfAtom(reader, stream.data[1], Position(stream))
    /\ err' = ReadError(ReadAtom(reader, stream.data[1]).exc)
    /\ stream' = [stream EXCEPT !.pos = 1]
    /\ UNCHANGED <<scopes, compiler, frames, expr, pc, depth, iters, level, reader>>

AtomNext == AtomWrite \/ AtomRead

SpecAtom == AtomInit /\ [][AtomNext]_vars

-----------------------------------------------------------------------------
(* Specification of the reader: Reader.read on a stream of tokens.  The    *)
(* frames are the reader's calls in progress, innermost last; last is the  *)
(* outcome of the _read call the innermost frame has made and not yet      *)
(* looked at.                                                              *)

\* tokens a stream gives beyond its written source
MaxTokens == 5

\* the atoms of the streams of the reader specification
ReadAtoms == {<<"1">>, <<"x">>, <<".">>}

MacroTokens == {<<"(">>, <<")">>, <<"'">>, <<Backquote>>, <<",">>, <<"@">>}

Tokens == ReadAtoms \cup MacroTokens

\* `(1 2 ,@(3 4))
QuasiSource ==
    <<<<Backquote>>, <<"(">>, <<"1">>, <<"2">>, <<",">>, <<"@">>,
      <<"(">>, <<"3">>, <<"4">>, <<")">>, <<")">>>>

\* '(testing a thing)
QuoteSource ==
    <<<<"'">>, <<"(">>, <<"t", "e", "s", "t", "i", "n", "g">>, <<"a">>,
      <<"t", "h", "i", "n", "g">>, <<")">>>>

\* `(1 ,x ,@y)
TemplateSource ==
    <<<<Backquote>>, <<"(">>, <<"1">>, <<",">>, <<"x">>, <<",">>, <<"@">>, <<"y">>, <<")">>>>

\* the written sources; a stream gives the tokens of its source, then up to
\* MaxTokens tokens in all, then its end
Sources == {<<>>, QuasiSource, QuoteSource, TemplateSource}

\* a call in progress: the method, the character and position its _read was
\* given, where it is in its body, the list it has built, the events its
\* own _read calls have returned, the old of its temporary_event_macro, and
\* the terminating list of the reader when that block was entered
Frame(fn, char, position, phase, old) ==
    [fn |-> fn, char |-> char, pos |-> position, phase |-> phase,
     result |-> Nil, seen |-> <<>>, old |-> old, terms |-> <<>>]

Top == frames[Len(frames)]

Popped == SubSeq(frames, 1, Len(frames) - 1)

Seen(event, value) == [event |-> event, value |-> value]

\* the tokens the next stream.read may give
NextTokens ==
    IF stream.pos < Len(stream.data) THEN {stream.data[stream.pos + 1]}
    ELSE IF Len(stream.data) < MaxTokens /\ ~stream.eof THEN Tokens
    ELSE {}

\* stream.read gave tok
Taken(tok) ==
    [stream EXCEPT !.data = IF stream.pos < Len(@) THEN @ ELSE Append(@, tok),
                   !.pos = @ + 1]

\* reader_macros.get(c, self._read_atom)
MacroOf(r, tok) ==
    IF tok[1] \in DOMAIN r.reader_macros THEN r.reader_macros[tok[1]]
    ELSE "_read_atom"

\* the innermost frame is about to call _read
Awaiting == err = "" /\ frames # <<>> /\ last.op = "none"

\* the innermost frame fn has the outcome of its _read call
Given(fn) ==
    /\ err = ""
    /\ frames # <<>>
    /\ Top.fn = fn
    /\ last.op = "_read"

\* a setcdr that leaves the list as it is
SetLastCdrKeeps(list, v) == list

\* setcdr(work, v), work being the last cell of the list
RECURSIVE SetLastCdr(_, _)
SetLastCdr(list, v) ==
    IF IsPair(list.tail) THEN [list EXCEPT !.tail = SetLastCdr(@, v)]
    ELSE [list EXCEPT !.tail = v]

\* the innermost frame returns VALUE, value to the _read that called it
Returns(value) ==
    /\ frames' = Popped
    /\ last' = Returned("VALUE", Top.pos, SetPosition(value, Top.pos), Top.fn)
    /\ err' = ""

\* the innermost frame raises stream.error(msg, position)
Raises(msg, position) ==
    /\ frames' = [frames EXCEPT ![Len(frames)].phase = "raised",
                                ![Len(frames)].seen = Append(@, Seen(last.event, last.value))]
    /\ last' = Raised(position, Top.fn, msg)
    /\ err' = "ReaderSyntaxError"

\* the innermost frame goes on after the outcome of its _read call
GoesOn(phase, result) ==
    /\ frames' = [frames EXCEPT ![Len(frames)].phase = phase,
                                ![Len(frames)].result = result,
                                ![Len(frames)].seen = Append(@, Seen(last.event, last.value))]
    /\ last' = NoRead
    /\ err' = ""

ReadInit ==
    /\ reader = NewReader
    /\ stream \in {[data |-> d, pos |-> 0, eof |-> FALSE] : d \in Sources}
    /\ last = NoRead
    /\ err = ""
    /\ IdleCompiler

\* Reader.read is called
ReadCall ==
    /\ frames = <<>>
    /\ last.op = "none"
    /\ stream.pos = 0
    /\ ~stream.eof
    /\ frames' = <<Frame("read", "", Position(stream), "", <<>>)>>
    /\ UNCHANGED <<scopes, compiler, last, expr, pc, depth, iters, err, level, reader, stream>>

\* _read: the stream has no character left
ReadEOF ==
    /\ Awaiting
    /\ stream.pos = Len(stream.data)
    /\ last' = Returned("EOF", Position(stream), NoneV, "")
    /\ stream' = [stream EXCEPT !.eof = TRUE]
    /\ UNCHANGED <<scopes, compiler, frames, expr, pc, depth, iters, err, level, reader>>

\* _read: the default macro, _read_atom
ReadAtomToken ==
    /\ Awaiting
    /\ \E tok \in NextTokens :
          /\ MacroOf(reader, tok) = "_read_atom"
          /\ last' = ReadOfAtom(reader, tok, Position(stream))
          /\ err' = ReadError(ReadAtom(reader, tok).exc)
          /\ stream' = Taken(tok)
    /\ UNCHANGED <<scopes, compiler, frames, expr, pc, depth, iters, level, reader>>

\* _read: _close_paren
ReadCloseParen ==
    /\ Awaiting
    /\ \E tok \in NextTokens :
          /\ MacroOf(reader, tok) = "_close_paren"
          /\ last' = Returned("CLOSE_PAREN", Position(stream), NoneV, "_close_paren")
          /\ stream' = Taken(tok)
    /\ UNCHANGED <<scopes, compiler, frames, expr, pc, depth, iters, err, level, reader>>

\* _read: _read_pair, _read_quote or _read_splice is entered
ReadEnters ==
    /\ Awaiting
    /\ \E tok \in NextTokens :
          /\ MacroOf(reader, tok) \in {"_read_pair", "_read_quote", "_read_splice"}
          /\ frames' = Append(frames,
                 Frame(MacroOf(reader, tok), tok[1], Position(stream),
                       IF MacroOf(reader, tok) = "_read_pair" THEN "items" ELSE "", <<>>))
          /\ stream' = Taken(tok)
    /\ UNCHANGED <<scopes, compiler, last, expr, pc, depth, iters, err, level, reader>>

\* the character of the temporary macro of a method, and its macro
TempChar(fn) == IF fn = "_read_quasiquote" THEN "," ELSE "@"

TempMacro(fn) == IF fn = "_read_quasiquote" THEN "_read_unquote" ELSE "_read_splice"

\* _read: _read_quasiquote or _read_unquote is entered and enters its with
\* statement
ReadEntersWith ==
    /\ Awaiting
    /\ \E tok \in NextTokens :
          /\ MacroOf(reader, tok) \in {"_read_quasiquote", "_read_unquote"}
          /\ frames' = Append(frames,
                 [Frame(MacroOf(reader, tok), tok[1], Position(stream), "with",
                        TemporaryEventMacro(reader, TempChar(MacroOf(reader, tok)),
                                            TempMacro(MacroOf(reader, tok)), TRUE).old)
                     EXCEPT !.terms = reader.terminating])
          /\ reader' = TemporaryEventMacro(reader, TempChar(MacroOf(reader, tok)),
                                           TempMacro(MacroOf(reader, tok)), TRUE).r
          /\ stream' = Taken(tok)
    /\ UNCHANGED <<scopes, compiler, last, expr, pc, depth, iters, err, level>>

\* _read_pair: the loop reads a value and appends it
PairValue ==
    /\ Given("_read_pair")
    /\ Top.phase = "items"
    /\ last.event = "VALUE"
    /\ GoesOn("items", IF Top.result = Nil THEN ConsAt(last.value, Nil, last.pos)
                       ELSE SetLastCdr(Top.result, ConsAt(last.value, Nil, last.pos)))
    /\ UNCHANGED <<scopes, compiler, expr, pc, depth, iters, level, reader, stream>>

\* _read_pair: the loop reads CLOSE_PAREN
PairClose ==
    /\ Given("_read_pair")
    /\ Top.phase = "items"
    /\ last.event = "CLOSE_PAREN"
    /\ Returns(Top.result)
    /\ UNCHANGED <<scopes, compiler, expr, pc, depth, iters, level, reader, stream>>

\* _read_pair: the loop reads DOT
PairDot ==
    /\ Given("_read_pair")
    /\ Top.phase = "items"
    /\ last.event = "DOT"
    /\ IF Top.result = Nil THEN Raises("invalid dotted list", last.pos)
       ELSE GoesOn("tail", Top.result)
    /\ UNCHANGED <<scopes, compiler, expr, pc, depth, iters, level, reader, stream>>

\* _read_pair: the loop reads EOF; the error carries the stream's position
PairEOF ==
    /\ Given("_read_pair")
    /\ Top.phase = "items"
    /\ last.event = "EOF"
    /\ Raises("unexpected EOF", Position(stream))
    /\ UNCHANGED <<scopes, compiler, expr, pc, depth, iters, level, reader, stream>>

\* _read_pair: the read after the dot
PairTail ==
    /\ Given("_read_pair")
    /\ Top.phase = "tail"
    /\ IF last.event # "VALUE" THEN Raises("invalid list syntax", last.pos)
       ELSE GoesOn("close", SetLastCdr(Top.result, last.value))
    /\ UNCHANGED <<scopes, compiler, expr, pc, depth, iters, level, reader, stream>>

\* _read_pair: the read after the dotted value
PairEnd ==
    /\ Given("_read_pair")
    /\ Top.phase = "close"
    /\ IF last.event # "CLOSE_PAREN" THEN Raises("invalid use of dot in list", last.pos)
       ELSE Returns(Top.result)
    /\ UNCHANGED <<scopes, compiler, expr, pc, depth, iters, level, reader, stream>>

\* _read_quote
QuoteTakes ==
    /\ Given("_read_quote")
    /\ IF last.event # "VALUE" THEN Raises("invalid use of char", last.pos)
       ELSE Returns(List(<<Sym("quote"), last.value>>))
    /\ UNCHANGED <<scopes, compiler, expr, pc, depth, iters, level, reader, stream>>

\* _read_splice
SpliceTakes ==
    /\ Given("_read_splice")
    /\ IF last.event # "VALUE" THEN Raises("invalid use of char", last.pos)
       ELSE Returns(List(<<Sym("splice"), last.value>>))
    /\ UNCHANGED <<scopes, compiler, expr, pc, depth, iters, level, reader, stream>>

\* _read_quasiquote: its _read returned, the with statement is left and
\* temporary_event_macro runs on after its yield
QuasiquoteTakes ==
    /\ Given("_read_quasiquote")
    /\ reader' = TemporaryEventMacroExit(reader, ",", Top.old)
    /\ IF last.event # "VALUE" THEN Raises("invalid use of char", last.pos)
       ELSE Returns(List(<<Sym("quasiquote"), last.value>>))
    /\ UNCHANGED <<scopes, compiler, expr, pc, depth, iters, level, stream>>

\* pair[1] of a pair: its tail
Item1(pair) == pair.tail

\* an unquote that keeps the splice form
UnquoteValueKeepsSplice(child) == List(<<Sym("unquote"), child>>)

\* what _read_unquote makes of its child
UnquoteValue(child) ==
    IF IsPair(child) /\ IsSym(child.head, "splice")
    THEN Cons(Sym("unquote-splicing"), Item1(child))
    ELSE List(<<Sym("unquote"), child>>)

\* _read_unquote: its _read returned, the with statement is left
UnquoteTakes ==
    /\ Given("_read_unquote")
    /\ reader' = TemporaryEventMacroExit(reader, "@", Top.old)
    /\ IF last.event # "VALUE" THEN Raises("invalid use of char", last.pos)
       ELSE Returns(UnquoteValue(last.value))
    /\ UNCHANGED <<scopes, compiler, expr, pc, depth, iters, level, stream>>

\* Reader.read: its _read returned
ReadTakes ==
    /\ Given("read")
    /\ IF last.event \notin {"VALUE", "EOF"} THEN Raises("invalid syntax", last.pos)
       ELSE /\ frames' = Popped
            /\ last' = [last EXCEPT !.op = "read"]
            /\ err' = ""
    /\ UNCHANGED <<scopes, compiler, expr, pc, depth, iters, level, reader, stream>>

\* an exception leaves the innermost call; ReaderSyntaxError is no
\* ValueError, so the except clause of the _read that made the call lets it
\* pass, and a temporary_event_macro whose with statement is left this way
\* does not run on after its yield
ReadUnwinds ==
    /\ err # ""
    /\ frames # <<>>
    /\ frames' = Popped
    /\ UNCHANGED <<scopes, compiler, last, expr, pc, depth, iters, err, level, reader, stream>>

\* compile_from_ast on the value Reader.read returned
ReadCompile ==
    /\ last.op = "read"
    /\ last.event = "VALUE"
    /\ err = ""
    /\ scopes = <<>>
    /\ expr = Nil
    /\ expr' = last.value
    /\ Leaves(CompileFromAst(NoSpaces, last.value))
    /\ last' = [last EXCEPT !.op = "compile_from_ast"]
    /\ UNCHANGED <<frames, pc, depth, iters, level, reader, stream>>

ReadNext ==
    \/ ReadCall
    \/ ReadEOF
    \/ ReadAtomToken
    \/ ReadCloseParen
    \/ ReadEnters
    \/ ReadEntersWith
    \/ PairValue
    \/ PairClose
    \/ PairDot
    \/ PairEOF
    \/ PairTail
    \/ PairEnd
    \/ QuoteTakes
    \/ SpliceTakes
    \/ QuasiquoteTakes
    \/ UnquoteTakes
    \/ ReadTakes
    \/ ReadUnwinds
    \/ ReadCompile

SpecRead == ReadInit /\ [][ReadNext]_vars

-----------------------------------------------------------------------------
(* Claims about the reader.                                                *)

\* a value without the positions of its pairs
RECURSIVE Bare(_)
Bare(e) == IF IsPair(e) THEN Cons(Bare(e.head), Bare(e.tail)) ELSE e

\* C11: when the read inside a quasiquote or unquote raises, the temporary
\* macro of ',' or '@' is removed on exit: when the exception leaves the
\* with statement, get_event_macro of the character returns what it
\* returned before the quasiquote or unquote was entered.
C11_TemporaryMacroRemovedOnError ==
    [][(/\ err # ""
        /\ frames # <<>>
        /\ Top.fn \in {"_read_quasiquote", "_read_unquote"}
        /\ Top.phase = "with"
        /\ frames' = Popped)
          => GetEventMacro(reader', TempChar(Top.fn)) = Top.old]_vars

\* the events a _read_pair frame has been given, with the one it is given now
EventsGiven(f, event) == [i \in 1..(Len(f.seen) + 1) |->
                            IF i <= Len(f.seen) THEN f.seen[i].event ELSE event]

\* the values among the first n of what a frame has been given
ValuesGiven(f, value, n) == [i \in 1..n |->
                               IF i <= Len(f.seen) THEN Bare(f.seen[i].value) ELSE Bare(value)]

\* VALUE* CLOSE_PAREN
IsProperSequence(ev) ==
    /\ ev[Len(ev)] = "CLOSE_PAREN"
    /\ \A i \in 1..(Len(ev) - 1) : ev[i] = "VALUE"

\* VALUE+ DOT VALUE CLOSE_PAREN
IsDottedSequence(ev) ==
    /\ Len(ev) >= 4
    /\ ev[Len(ev)] = "CLOSE_PAREN"
    /\ ev[Len(ev) - 1] = "VALUE"
    /\ ev[Len(ev) - 2] = "DOT"
    /\ \A i \in 1..(Len(ev) - 3) : ev[i] = "VALUE"

\* a sequence that one of the two accepted sequences begins with and that
\* is not one of them yet
IsUnfinished(ev) ==
    \/ \A i \in DOMAIN ev : ev[i] = "VALUE"
    \/ /\ Len(ev) >= 2
       /\ ev[Len(ev)] = "DOT"
       /\ \A i \in 1..(Len(ev) - 1) : ev[i] = "VALUE"
    \/ /\ Len(ev) >= 3
       /\ ev[Len(ev)] = "VALUE"
       /\ ev[Len(ev) - 1] = "DOT"
       /\ \A i \in 1..(Len(ev) - 2) : ev[i] = "VALUE"

\* the list of items that ends in tl
RECURSIVE ListEndingIn(_, _)
ListEndingIn(items, tl) ==
    IF items = <<>> THEN tl ELSE Cons(Head(items), ListEndingIn(Tail(items), tl))

\* the list the claim gives for an accepted sequence of n events
ListClaimed(f, ev) ==
    IF IsProperSequence(ev) THEN ListEndingIn(ValuesGiven(f, NoneV, Len(ev) - 1), Nil)
    ELSE ListEndingIn(ValuesGiven(f, NoneV, Len(ev) - 3), Bare(f.seen[Len(ev) - 1].value))

\* what the claim says of a _read_pair frame f that is given event
PairClaimed(f, ev) ==
    IF IsProperSequence(ev) \/ IsDottedSequence(ev)
    THEN /\ frames' = Popped
         /\ err' = ""
         /\ last'.op = "_read"
         /\ last'.event = "VALUE"
         /\ Bare(last'.value) = ListClaimed(f, ev)
    ELSE IF IsUnfinished(ev)
    THEN /\ err' = ""
         /\ Len(frames') = Len(frames)
         /\ last'.op = "none"
    ELSE /\ err' = "ReaderSyntaxError"
         /\ last'.op = "raise"

\* C12: after '(' the pair reader accepts exactly the event sequences
\* VALUE* CLOSE_PAREN, giving the proper list of the values in order, and
\* VALUE+ DOT VALUE CLOSE_PAREN, giving the improper list whose tail is the
\* value after the dot; every other sequence raises a ReaderSyntaxError.
C12_PairAcceptsTwoSequences ==
    [][Given("_read_pair") => PairClaimed(Top, EventsGiven(Top, last.event))]_vars

\* _read_pair has returned the improper list of a dotted sequence
C12_Witness ==
    /\ last.op = "_read"
    /\ last.conv = "_read_pair"
    /\ IsPair(last.value)
    /\ ~IsProper(last.value)

DefaultOrder ==
    <<"fraction", "complex", "float", "binary", "oct", "hex", "int", "keyword">>

\* C13: the atom reader tries the default patterns in the order fraction,
\* complex, float, binary, oct, hex, int, keyword and converts an atom with
\* the first one whose grammar accepts the full atom; an atom that no
\* pattern accepts in full is read as a symbol and raises no error.
C13_FirstFullPatternConverts ==
    /\ reader.atom_patterns = DefaultOrder
    /\ (last.op \in {"_read", "raise"} /\ stream.data[1] # <<".">>)
          => /\ last.conv = FullPattern(reader, stream.data[1])
             /\ FullPattern(reader, stream.data[1]) = "symbol"
                   => /\ err = ""
                      /\ last.event = "VALUE"
                      /\ last.value = Sym(Text(stream.data[1]))

\* C14: every failure raised by the conversion function of an atom pattern
\* leaves Reader._read as a ReaderSyntaxError that carries the position
\* recorded before the first character of the atom, never as an exception
\* of another type.
C14_ConversionFailureIsSyntaxError ==
    (/\ stream.pos = 1
     /\ stream.data[1] # <<".">>
     /\ ~Conv(Pattern(reader, stream.data[1]), stream.data[1]).ok)
        => /\ last.op = "raise"
           /\ err = "ReaderSyntaxError"
           /\ last.pos = 1

\* (quasiquote (1 2 (unquote-splicing (3 4))))
QuasiRead ==
    List(<<Sym("quasiquote"),
           List(<<Num(1), Num(2),
                  List(<<Sym("unquote-splicing"), List(<<Num(3), Num(4)>>)>>)>>)>>)

\* C17: inside a quasiquote, reading ,x yields the proper list (unquote x)
\* and reading ,@y yields the proper list (unquote-splicing y), with no
\* splice form left; reading `(1 2 ,@(3 4)) yields
\* (quasiquote (1 2 (unquote-splicing (3 4)))).
C17_UnquoteForms ==
    /\ [][(Given("_read_unquote") /\ last.event = "VALUE")
            => /\ last'.op = "_read"
               /\ last'.event = "VALUE"
               /\ Bare(last'.value) =
                     IF last.conv = "_read_splice"
                     THEN List(<<Sym("unquote-splicing"), Bare(last.value.tail.head)>>)
                     ELSE List(<<Sym("unquote"), Bare(last.value)>>)]_vars
    /\ []((stream.data = QuasiSource /\ last.op = "read")
            => (err = "" /\ Bare(last.value) = QuasiRead))

\* `(1 2 ,@(3 4)) has been read
C17_Witness ==
    /\ stream.data = QuasiSource
    /\ last.op = "read"
    /\ err = ""
    /\ frames = <<>>

-----------------------------------------------------------------------------
(* Execution of the pseudo-ops that construct a value: the stack holds     *)
(* values; a variable other than the builtins below is the value var;     *)
(* the items to-tuple takes from a value v are the one item spliced.       *)

Var(n) == [t |-> "var", n |-> n]

Tuple(items) == [t |-> "tuple", items |-> items]

Spliced(v) == [t |-> "spliced", v |-> v]

\* f(*args) for the builtins symbol, make-proper, cons and to-tuple
Apply(f, args) ==
    IF f = Var("symbol") /\ Len(args) = 1 /\ args[1].t = "const"
    THEN Sym(args[1].c.s)
    ELSE IF f = Var("make-proper") THEN List(args)
    ELSE IF f = Var("cons") /\ Len(args) >= 2
    THEN ListEndingIn(SubSeq(args, 1, Len(args) - 1), args[Len(args)])
    ELSE IF f = Var("to-tuple") /\ Len(args) = 1 THEN Tuple(<<Spliced(args[1])>>)
    ELSE [t |-> "call", f |-> f, args |-> args]

\* the items of the tuples of a sequence, in order
RECURSIVE Unpacked(_)
Unpacked(tuples) ==
    IF tuples = <<>> THEN <<>> ELSE Head(tuples).items \o Unpacked(Tail(tuples))

\* the n values on top of the stack
TopN(w, n) == SubSeq(w.stack, Len(w.stack) - n + 1, Len(w.stack))

\* the stack with its n top values replaced by v
Replaced(w, n, v) ==
    [w EXCEPT !.stack = Append(SubSeq(@, 1, Len(@) - n), v)]

Stuck(w) == [w EXCEPT !.failed = TRUE]

\* one pseudo-op, as the opcode gen_opcode gives for it runs
EvalStep(w, o) ==
    IF w.failed \/ w.done THEN w
    ELSE IF o.op = "POSITION" THEN w
    ELSE IF o.op = "GET_VAR"
    THEN Replaced(w, 0, IF o.arg = "nil" THEN Nil ELSE Var(o.arg))
    ELSE IF o.op = "CONST"
    THEN Replaced(w, 0, IF o.arg.k = "nil" THEN Nil ELSE [t |-> "const", c |-> o.arg])
    ELSE IF o.op = "CALL"
    THEN IF Len(w.stack) < o.arg + 1 THEN Stuck(w)
         ELSE Replaced(w, o.arg + 1, Apply(w.stack[Len(w.stack) - o.arg], TopN(w, o.arg)))
    ELSE IF o.op = "BUILD_TUPLE"
    THEN IF Len(w.stack) < o.arg THEN Stuck(w)
         ELSE Replaced(w, o.arg, Tuple(TopN(w, o.arg)))
    ELSE IF o.op = "BUILD_TUPLE_UNPACK"
    THEN IF Len(w.stack) < o.arg \/ \E i \in 1..o.arg : TopN(w, o.arg)[i].t # "tuple"
         THEN Stuck(w)
         ELSE Replaced(w, o.arg, Tuple(Unpacked(TopN(w, o.arg))))
    ELSE IF o.op = "CALL_VARARGS"
    THEN IF Len(w.stack) < 2 \/ w.stack[Len(w.stack)].t # "tuple" THEN Stuck(w)
         ELSE Replaced(w, 2, Apply(w.stack[Len(w.stack) - 1], w.stack[Len(w.stack)].items))
    ELSE IF o.op = "RET_VAL"
    THEN IF w.stack = <<>> THEN Stuck(w) ELSE [w EXCEPT !.done = TRUE]
    ELSE Stuck(w)

RECURSIVE EvalFrom(_, _, _, _)
EvalFrom(w, ops, lo, hi) ==
    IF w.failed \/ w.done \/ lo > hi THEN w
    ELSE IF lo = hi THEN EvalStep(w, ops[lo])
    ELSE EvalFrom(EvalFrom(w, ops, lo, (lo + hi) \div 2), ops, (lo + hi) \div 2 + 1, hi)

\* the run of a buffer of pseudo-ops from an empty stack
Evaluation(ops) ==
    EvalFrom([stack |-> <<>>, done |-> FALSE, failed |-> FALSE], ops, 1, Len(ops))

\* the value the buffer returns, None when it does not return
Evaluated(ops) ==
    IF Evaluation(ops).done THEN Evaluation(ops).stack[Len(Evaluation(ops).stack)]
    ELSE NoneV

\* the value of the expression e compiled on its own
ValueOf(e) == Evaluated(CompileFromAst(NoSpaces, e).scopes[1].pseudops)

\* the form (name operand), a proper list of two elements
IsFormOf(e, name) ==
    /\ IsPair(e)
    /\ IsSym(e.head, name)
    /\ IsPair(e.tail)
    /\ IsNil(e.tail.tail)

\* compile_from_ast has returned the code of the expression read
HasCompiled == last.op = "compile_from_ast" /\ err = "" /\ scopes # <<>>

\* C15: the pseudo-ops emitted for (quote x) construct, when run, exactly the
\* value x: nil, symbol(name), make-proper of the quoted elements, cons of
\* the quoted elements and tail, or the constant; (quote (testing a thing))
\* yields the proper list of the three symbols.
C15_QuoteConstructsValue ==
    (HasCompiled /\ IsFormOf(expr, "quote"))
        => Evaluated(scopes[1].pseudops) = Bare(expr.tail.head)

\* what the claim gives for an element of a template
ElementClaimed(e) ==
    IF IsFormOf(e, "unquote") THEN <<ValueOf(e.tail.head)>>
    ELSE IF IsFormOf(e, "unquote-splicing") THEN <<Spliced(ValueOf(e.tail.head))>>
    ELSE <<Bare(e)>>

RECURSIVE ElementsClaimed(_)
ElementsClaimed(items) ==
    IF items = <<>> THEN <<>>
    ELSE ElementClaimed(Head(items)) \o ElementsClaimed(Tail(items))

\* a template that is a proper list of elements
IsTemplate(e) ==
    /\ IsPair(e)
    /\ IsProper(e)
    /\ ~IsSym(e.head, "unquote")
    /\ ~IsSym(e.head, "unquote-splicing")

\* C16: the pseudo-ops emitted for a quasiquote template the reader produced
\* construct the list in which an element (unquote y) is the value of the
\* expression y, an element (unquote-splicing y) is the items to-tuple
\* takes from the value of y, and every other element is the element
\* itself, as by quote.
C16_QuasiquoteConstructsTemplate ==
    (HasCompiled /\ IsFormOf(expr, "quasiquote") /\ IsTemplate(expr.tail.head))
        => Evaluated(scopes[1].pseudops) = List(ElementsClaimed(Unpack(expr.tail.head)))

-----------------------------------------------------------------------------
(* Assembly: gen_opcode, code_bytes with apply_jump_labels, and            *)
(* lnt_compile, in dialect "A" (CPython35, instructions of 1 or 3 bytes)   *)
(* and dialect "B" (CPython36, instructions of 2 bytes).  An opcode is     *)
(* held with its argument; code_bytes joins the pairs (dialect B) or the   *)
(* opcode with the low and high byte of its argument (dialect A).          *)

Dialects == {"A", "B"}

Opc(op, arg) == [op |-> op, arg |-> arg]

\* an exception raised while the opcodes are generated
GenRaises(exc) == [op |-> "", arg |-> exc]

\* list.index, counted from 0
Index(l, v) ==
    (CHOOSE i \in 1..Len(l) : l[i] = v /\ \A j \in 1..(i - 1) : l[j] # v) - 1

\* the opcode of GET_VAR and SET_VAR, by the list of c that holds n
VarOpcode(c, n, deref, fast, global) ==
    IF In(c.cell_vars, n) THEN Opc(deref, Index(c.cell_vars, n))
    ELSE IF In(c.free_vars, n)
    THEN Opc(deref, Index(c.free_vars, n) + Len(c.cell_vars))
    ELSE IF In(c.fast_vars, n) THEN Opc(fast, Index(c.fast_vars, n))
    ELSE IF In(c.global_vars, n) THEN Opc(global, Index(c.names, n))
    ELSE GenRaises("AssertionError")

\* gen_opcode: the opcode yielded for pseudo-op o of code space c, for the
\* pseudo-ops that yield one opcode (POSITION and LABEL yield none and are
\* taken by CodeBytesStep)
GenOpcode(c, o, dialect) ==
    CASE o.op = "CALL" -> Opc("CALL_FUNCTION", o.arg)
      [] o.op = "CONST" ->
            IF dialect = "B" THEN Opc("LOAD_CONST", ConstIndex(c.consts, o.arg))
            ELSE IF In(c.consts, o.arg)
            THEN Opc("LOAD_CONST", Index(c.consts, o.arg))
            ELSE GenRaises("AssertionError")
      [] o.op = "GET_VAR" ->
            VarOpcode(c, o.arg, "LOAD_DEREF", "LOAD_FAST", "LOAD_GLOBAL")
      [] o.op = "SET_VAR" ->
            VarOpcode(c, o.arg, "STORE_DEREF", "STORE_FAST", "STORE_GLOBAL")
      [] o.op = "DEFINE" ->
            IF In(c.global_vars, o.arg)
            THEN Opc("STORE_GLOBAL", Index(c.names, o.arg))
            ELSE GenRaises("SyntaxError")
      [] o.op = "POP" -> Opc("POP_TOP", 0)
      [] o.op = "RET_VAL" -> Opc("RETURN_VALUE", 0)
      [] o.op = "DUP" -> Opc("DUP_TOP", 0)
      [] o.op = "JUMP" -> Opc("JUMP_ABSOLUTE", o.arg)
      [] o.op = "JUMP_FORWARD" -> Opc("JUMP_FORWARD", o.arg)
      [] o.op = "POP_JUMP_IF_TRUE" -> Opc("POP_JUMP_IF_TRUE", o.arg)
      [] o.op = "POP_JUMP_IF_FALSE" -> Opc("POP_JUMP_IF_FALSE", o.arg)
      [] o.op = "CALL_VARARGS" ->
            IF dialect = "B" THEN Opc("CALL_FUNCTION_EX", 0)
            ELSE Opc("CALL_FUNCTION_VAR", o.arg)
      [] o.op = "BUILD_TUPLE" -> Opc("BUILD_TUPLE", o.arg)
      [] o.op = "BUILD_TUPLE_UNPACK" -> Opc("BUILD_TUPLE_UNPACK", o.arg)
      [] o.op = "SETUP_EXCEPT" -> Opc("SETUP_EXCEPT", o.arg)
      [] o.op = "SETUP_FINALLY" -> Opc("SETUP_FINALLY", o.arg)
      [] o.op = "POP_BLOCK" -> Opc("POP_BLOCK", 0)
      [] o.op = "POP_EXCEPT" -> Opc("POP_EXCEPT", 0)

\* Opcode.hasjabs and Opcode.hasjrel, among the opcodes of GenOpcode
HasJabs(op) == op \in {"JUMP_ABSOLUTE", "POP_JUMP_IF_TRUE", "POP_JUMP_IF_FALSE"}

HasJrel(op) == op \in {"JUMP_FORWARD", "SETUP_EXCEPT", "SETUP_FINALLY"}

\* the opcodes that dialect A yields without an argument
Bare35(op) ==
    op \in {"POP_TOP", "RETURN_VALUE", "DUP_TOP", "POP_BLOCK", "POP_EXCEPT"}

\* the local state of code_bytes: labels is the dict of label offsets, a
\* mark in jabs or jrel holds len(coll) at the jump, lnt the positions
EmptyLabels == [l \in {} |-> 0]

NewWalk ==
    [offset |-> 0, coll |-> <<>>, labels |-> EmptyLabels,
     jabs |-> <<>>, jrel |-> <<>>, lnt |-> <<>>, exc |-> ""]

AddLabel(w, name) ==
    [w EXCEPT !.labels = [l \in DOMAIN w.labels \cup {name} |->
                             IF l = name THEN w.offset ELSE w.labels[l]]]

MarkJabs(w, label_name) ==
    [w EXCEPT !.jabs = Append(@, [at |-> Len(w.coll), name |-> label_name])]

MarkJrel(w, label_name) ==
    [w EXCEPT !.jrel = Append(@, [at |-> Len(w.coll), name |-> label_name,
                                  off |-> w.offset])]

\* set_position of code_bytes
SetLine(w, line) ==
    [w EXCEPT !.lnt = Append(@, [offset |-> w.offset, line |-> line])]

\* the jump placed in coll with a zero argument, behind an EXTENDED_ARG in
\* dialect B
PadJump(w, opa, dialect) ==
    IF dialect = "B"
    THEN [w EXCEPT !.coll = @ \o <<Opc("EXTENDED_ARG", 0), Opc(opa.op, 0)>>,
                   !.offset = @ + 4]
    ELSE [w EXCEPT !.coll = Append(@, Opc(opa.op, 0)), !.offset = @ + 3]

\* the body of the loop of code_bytes for one opcode
Encode(w, opa, dialect) ==
    IF opa.op = "" THEN [w EXCEPT !.exc = opa.arg]
    ELSE IF HasJabs(opa.op) THEN PadJump(MarkJabs(w, opa.arg), opa, dialect)
    ELSE IF HasJrel(opa.op) THEN PadJump(MarkJrel(w, opa.arg), opa, dialect)
    ELSE [w EXCEPT !.coll = Append(@, opa),
                   !.offset = @ + (IF dialect = "B" THEN 2
                                   ELSE IF Bare35(opa.op) THEN 1 ELSE 3)]

\* one pseudo-op through gen_opcode and the loop of code_bytes
CodeBytesStep(c, w, o, dialect) ==
    IF o.op = "POSITION" THEN SetLine(w, o.arg)
    ELSE IF o.op = "LABEL" THEN AddLabel(w, o.arg)
    ELSE Encode(w, GenOpcode(c, o, dialect), dialect)

\* the loop of code_bytes over the pseudo-ops lo..hi
RECURSIVE CodeBytesFrom(_, _, _, _, _, _)
CodeBytesFrom(c, w, ops, lo, hi, dialect) ==
    IF w.exc # "" \/ lo > hi THEN w
    ELSE IF lo = hi THEN CodeBytesStep(c, w, ops[lo], dialect)
    ELSE CodeBytesFrom(c, CodeBytesFrom(c, w, ops, lo, (lo + hi) \div 2, dialect),
                       ops, ((lo + hi) \div 2) + 1, hi, dialect)

\* (target >> 8) & 0xff and target & 0xff
ExtStaysZero(target) == 0

Ext(target) == (target \div 256) % 256

Low(target) == target % 256

\* the target of the jump marked by j: a label's offset, or for a relative
\* jump its distance from the end of the jump
AbsTarget(labels, j) == labels[j.name]

RelTargetFromJump(labels, j, dialect) == labels[j.name] - (j.off + 2)

RelTarget(labels, j, dialect) ==
    labels[j.name] - (j.off + (IF dialect = "B" THEN 4 ELSE 3))

Marked(marks) == {marks[k].at : k \in DOMAIN marks}

MarkAt(marks, at) == marks[CHOOSE k \in DOMAIN marks : marks[k].at = at]

TargetAt(w, at, dialect) ==
    IF at \in Marked(w.jabs) THEN AbsTarget(w.labels, MarkAt(w.jabs, at))
    ELSE RelTarget(w.labels, MarkAt(w.jrel, at), dialect)

\* the entry i of coll after apply_jump_labels: in dialect B the marked
\* entry is the EXTENDED_ARG and the next one the jump, in dialect A the
\* marked entry is the jump and holds both bytes
PatchedEntry(w, i, dialect) ==
    IF dialect = "B"
    THEN IF (i - 1) \in Marked(w.jabs) \cup Marked(w.jrel)
         THEN Opc(w.coll[i].op, Ext(TargetAt(w, i - 1, dialect)))
         ELSE IF (i - 2) \in Marked(w.jabs) \cup Marked(w.jrel)
         THEN Opc(w.coll[i].op, Low(TargetAt(w, i - 2, dialect)))
         ELSE w.coll[i]
    ELSE IF (i - 1) \in Marked(w.jabs) \cup Marked(w.jrel)
         THEN Opc(w.coll[i].op, Low(TargetAt(w, i - 1, dialect))
                                + 256 * Ext(TargetAt(w, i - 1, dialect)))
         ELSE w.coll[i]

\* apply_jump_labels, not reached when the loop of code_bytes has raised;
\* a jump to a label that was never declared is a KeyError
ApplyJumpLabels(w, dialect) ==
    IF w.exc # "" THEN w
    ELSE IF \/ \E k \in DOMAIN w.jabs : w.jabs[k].name \notin DOMAIN w.labels
       \/ \E k \in DOMAIN w.jrel : w.jrel[k].name \notin DOMAIN w.labels
    THEN [w EXCEPT !.exc = "KeyError"]
    ELSE [w EXCEPT !.coll = [i \in DOMAIN w.coll |-> PatchedEntry(w, i, dialect)]]

\* bytes(c) for every entry of coll: an argument byte outside 0..255 is a
\* ValueError
Joined(w, dialect) ==
    IF w.exc # "" THEN w
    ELSE IF \E i \in DOMAIN w.coll :
               /\ w.coll[i].arg \notin 0..255
               /\ ~(dialect = "A" /\ (HasJabs(w.coll[i].op) \/ HasJrel(w.coll[i].op)))
    THEN [w EXCEPT !.exc = "ValueError"]
    ELSE w

\* code_bytes(lnt) of code space c: coll is the code, lnt the positions
CodeBytes(c, dialect) ==
    Joined(ApplyJumpLabels(CodeBytesFrom(c, NewWalk, c.pseudops, 1,
                                         Len(c.pseudops), dialect), dialect),
           dialect)

\* the pairs lnt_compile gathers for one entry
LntPairs(d_offset, d_line) ==
    (IF d_line < -128 \/ d_line > 127
     THEN <<<<d_offset, Ext(d_line)>>>> ELSE <<>>)
    \o <<<<d_offset, Low(d_line)>>>>

\* the body of the loop of lnt_compile for the entry e
LntStep(g, e, dialect) ==
    IF g.gathered # <<>> /\ e.line = g.prev_line THEN g
    ELSE IF e.line - g.prev_line < 0 /\ dialect = "A" THEN g
    ELSE [gathered    |-> g.gathered \o LntPairs(Low(e.offset - g.prev_offset),
                                                 e.line - g.prev_line),
          prev_offset |-> e.offset,
          prev_line   |-> e.line]

RECURSIVE LntFrom(_, _, _, _)
LntFrom(g, lnt, i, dialect) ==
    IF i > Len(lnt) THEN g
    ELSE LntFrom(LntStep(g, lnt[i], dialect), lnt, i + 1, dialect)

\* lnt_compile(lnt, firstline); firstline 0 stands for None
LntCompile(lnt, firstline, dialect) ==
    IF lnt = <<>>
    THEN [firstlineno |-> IF firstline = 0 THEN 1 ELSE firstline,
          lnotab      |-> <<>>]
    ELSE [firstlineno |-> IF firstline = 0 THEN lnt[1].line ELSE firstline,
          lnotab      |-> LntFrom([gathered    |-> <<>>,
                                   prev_offset |-> 0,
                                   prev_line   |-> IF firstline = 0
                                                   THEN lnt[1].line
                                                   ELSE firstline],
                                  lnt, 1, dialect).gathered]

-----------------------------------------------------------------------------
(* Specification of the assembly: the pseudop_ emitters fill the buffer of *)
(* one code space, and complete assembles it.  iters counts the emitter    *)
(* calls; last holds what the latest assembly computed.                    *)

\* emitter calls in one buffer
MaxEmits == 3

\* instructions of a straight-line block
BlockOps == 130

\* the labels gen_label has handed out, by their numbers
LabelNames == {1, 2}

\* lines of the positions recorded
PositionLines == {1, 2, 200}

\* the lines a code space is declared at; 0 stands for no declared_at
DeclaredAt == {0, 1}

NotAssembled == [op |-> "none"]

\* what code_bytes, with the walk w as its outcome, and lnt_compile on the
\* positions it recorded leave: complete calls them in this order with
\* firstline taken from declared_at
AssembledFrom(c, w, dialect) ==
    [op          |-> "code_bytes",
     dialect     |-> dialect,
     exc         |-> w.exc,
     code        |-> w.coll,
     lnt         |-> w.lnt,
     firstline   |-> c.declared_at,
     firstlineno |-> LntCompile(w.lnt, c.declared_at, dialect).firstlineno,
     lnotab      |-> LntCompile(w.lnt, c.declared_at, dialect).lnotab]

Assembled(c, dialect) == AssembledFrom(c, CodeBytes(c, dialect), dialect)

\* the labels the buffer declares
Declared(ops) == {ops[i].arg : i \in {j \in DOMAIN ops : ops[j].op = "LABEL"}}

BytesRest ==
    /\ compiler = 0
    /\ frames = <<>>
    /\ expr = <<>>
    /\ pc = 0
    /\ depth = 0
    /\ err = ""
    /\ level = 0
    /\ reader = 0
    /\ stream = <<>>

BytesInit ==
    /\ \E d \in DeclaredAt :
          scopes = <<[NewCodeSpace(0, <<>>, FALSE) EXCEPT !.declared_at = d]>>
    /\ last = NotAssembled
    /\ iters = 0
    /\ BytesRest

\* an emitter has appended to the buffer
Emitted(sc) ==
    /\ scopes' = sc
    /\ iters' = iters + 1
    /\ last' = NotAssembled
    /\ UNCHANGED <<compiler, frames, expr, pc, depth, err, level, reader, stream>>

\* pseudop_pop
BytesPop ==
    /\ iters < MaxEmits
    /\ Emitted(Pseudop(scopes, 1, "POP", 0))

\* a straight-line block: pseudop_const(None) and pseudop_pop in turn,
\* BlockOps instructions in all
BytesBlock ==
    /\ iters < MaxEmits
    /\ Emitted([scopes EXCEPT ![1].pseudops =
                   @ \o [i \in 1..BlockOps |->
                            IF i % 2 = 1 THEN [op |-> "CONST", arg |-> NoneC]
                            ELSE [op |-> "POP", arg |-> 0]]])

\* pseudop_label of a label not declared yet
BytesLabel ==
    /\ iters < MaxEmits
    /\ \E l \in LabelNames \ Declared(scopes[1].pseudops) :
          Emitted(Pseudop(scopes, 1, "LABEL", l))

\* pseudop_jump
BytesJump ==
    /\ iters < MaxEmits
    /\ \E l \in LabelNames : Emitted(Pseudop(scopes, 1, "JUMP", l))

\* pseudop_pop_jump_if_false
BytesPopJumpIfFalse ==
    /\ iters < MaxEmits
    /\ \E l \in LabelNames :
          Emitted(Pseudop(scopes, 1, "POP_JUMP_IF_FALSE", l))

\* pseudop_jump_forward, to a label that is declared later
BytesJumpForward ==
    /\ iters < MaxEmits
    /\ \E l \in LabelNames \ Declared(scopes[1].pseudops) :
          Emitted(Pseudop(scopes, 1, "JUMP_FORWARD", l))

\* pseudop_position
BytesPosition ==
    /\ iters < MaxEmits
    /\ \E line \in PositionLines :
          Emitted(Pseudop(scopes, 1, "POSITION", line))

\* code_bytes, then lnt_compile, as CodeSpace.complete calls them
BytesComplete ==
    /\ last = NotAssembled
    /\ \E dialect \in Dialects : last' = Assembled(scopes[1], dialect)
    /\ UNCHANGED <<scopes, compiler, frames, expr, pc, depth, iters, err, level,
                   reader, stream>>

BytesNext ==
    \/ BytesPop
    \/ BytesBlock
    \/ BytesLabel
    \/ BytesJump
    \/ BytesPopJumpIfFalse
    \/ BytesJumpForward
    \/ BytesPosition
    \/ BytesComplete

SpecBytes == BytesInit /\ [][BytesNext]_vars

-----------------------------------------------------------------------------
(* C18, C19: the arguments patched into the jumps of dialect B, against    *)
(* byte offsets counted on the pseudo-op buffer itself.                    *)

AbsJumps == {"JUMP", "POP_JUMP_IF_TRUE", "POP_JUMP_IF_FALSE"}

RelJumps == {"JUMP_FORWARD", "SETUP_EXCEPT", "SETUP_FINALLY"}

\* the pseudo-ops before place i that are jumps, and those that are other
\* instructions
JumpsBefore(ops, i) ==
    Cardinality({j \in 1..(i - 1) : ops[j].op \in AbsJumps \cup RelJumps})

OthersBefore(ops, i) ==
    Cardinality({j \in 1..(i - 1) :
                    ops[j].op \notin AbsJumps \cup RelJumps \cup {"LABEL", "POSITION"}})

\* the byte offset of the first instruction emitted from place i on:
\* 2 bytes an instruction, 4 bytes a jump with its EXTENDED_ARG
ByteOffset(ops, i) == 4 * JumpsBefore(ops, i) + 2 * OthersBefore(ops, i)

\* the place in the code of the first instruction emitted from place i on
CodePlace(ops, i) == 2 * JumpsBefore(ops, i) + OthersBefore(ops, i) + 1

\* the byte offset T of label l
LabelOffset(ops, l) ==
    ByteOffset(ops, CHOOSE i \in DOMAIN ops : ops[i] = [op |-> "LABEL", arg |-> l])

\* the buffer was assembled in dialect B and every jump found its label
AssembledB ==
    /\ last.op = "code_bytes"
    /\ last.dialect = "B"
    /\ last.exc = ""

JumpPlaces(kinds) ==
    {i \in DOMAIN scopes[1].pseudops : scopes[1].pseudops[i].op \in kinds}

\* the jump at place i of the buffer has its EXTENDED_ARG immediately
\* before it, with the arguments ext and jmp
PatchedAs(i, ext, jmp) ==
    /\ last.code[CodePlace(scopes[1].pseudops, i)] = Opc("EXTENDED_ARG", ext)
    /\ last.code[CodePlace(scopes[1].pseudops, i) + 1] =
          Opc(GenOpcode(scopes[1], scopes[1].pseudops[i], "B").op, jmp)

\* C18: in dialect B, after the patch pass, every absolute jump whose
\* label's byte offset T is below 65536 has T >> 8 as the argument of the
\* EXTENDED_ARG immediately before it and T & 0xff as its own argument,
\* T being the byte offset of the first instruction emitted after the LABEL
\* pseudo-op, instructions counted at 2 bytes and jumps at 4.
C18_AbsoluteJumpPatched ==
    AssembledB =>
        \A i \in JumpPlaces(AbsJumps) :
            LabelOffset(scopes[1].pseudops, scopes[1].pseudops[i].arg) < 65536
                => PatchedAs(i,
                      LabelOffset(scopes[1].pseudops, scopes[1].pseudops[i].arg) \div 256,
                      LabelOffset(scopes[1].pseudops, scopes[1].pseudops[i].arg) % 256)

\* an absolute jump to a label at or beyond byte 256 has been patched
C18_Witness ==
    /\ AssembledB
    /\ \E i \in JumpPlaces(AbsJumps) :
          LabelOffset(scopes[1].pseudops, scopes[1].pseudops[i].arg) >= 256

\* the distance from the instruction that follows the relative jump at
\* place i to its label; the jump itself is 2 bytes after its EXTENDED_ARG
Distance(ops, i) == LabelOffset(ops, ops[i].arg) - ((ByteOffset(ops, i) + 2) + 2)

\* C19: in dialect B the 16-bit argument patched into a relative jump,
\* the EXTENDED_ARG holding its high byte and the jump its low byte, is the
\* label's byte offset minus (the byte offset of the jump instruction
\* itself + 2).
C19_RelativeJumpPatched ==
    AssembledB =>
        \A i \in JumpPlaces(RelJumps) :
            \E ext, jmp \in 0..255 :
                /\ PatchedAs(i, ext, jmp)
                /\ 256 * ext + jmp = Distance(scopes[1].pseudops, i)

\* a relative jump over 256 bytes or more has been patched
C19_Witness ==
    /\ AssembledB
    /\ \E i \in JumpPlaces(RelJumps) : Distance(scopes[1].pseudops, i) >= 256

-----------------------------------------------------------------------------
(* C20: the line-number table read back.                                   *)

\* a line byte read as a signed 8-bit value
Signed8(b) == IF b > 127 THEN b - 256 ELSE b

RECURSIVE OffsetSum(_, _)
OffsetSum(lnotab, i) == IF i = 0 THEN 0 ELSE lnotab[i][1] + OffsetSum(lnotab, i - 1)

RECURSIVE LineSum(_, _)
LineSum(lnotab, i) ==
    IF i = 0 THEN 0 ELSE Signed8(lnotab[i][2]) + LineSum(lnotab, i - 1)

\* the (byte offset, line) reached after each pair, from offset 0 and the
\* first line
Decoded(firstlineno, lnotab) ==
    [i \in DOMAIN lnotab |-> [offset |-> OffsetSum(lnotab, i),
                              line   |-> firstlineno + LineSum(lnotab, i)]]

\* the recorded entries from place i on that the table stands for, prev
\* being the line of the entry before: an entry of the same line as the
\* one before it is merged into it, and in dialect A an entry of a lower
\* line is dropped
RECURSIVE Kept(_, _, _, _, _)
Kept(lnt, i, prev, first, dialect) ==
    IF i > Len(lnt) THEN <<>>
    ELSE IF ~first /\ lnt[i].line = prev THEN Kept(lnt, i + 1, prev, first, dialect)
    ELSE IF dialect = "A" /\ lnt[i].line < prev
    THEN Kept(lnt, i + 1, prev, first, dialect)
    ELSE <<lnt[i]>> \o Kept(lnt, i + 1, lnt[i].line, FALSE, dialect)

\* the decoded pairs yield the entries: every entry is reached, in the
\* end the last one, and nothing is reached when there is no entry (the
\* places reached between the pairs of one entry are let pass)
Yields(decoded, entries) ==
    /\ \A i \in DOMAIN entries : \E j \in DOMAIN decoded : decoded[j] = entries[i]
    /\ entries # <<>> => (decoded # <<>> /\ decoded[Len(decoded)] = entries[Len(entries)])
    /\ entries = <<>> => decoded = <<>>

\* C20: decoding the pairs returned by lnt_compile, from offset 0 and the
\* returned first line, yields the recorded (byte offset, line) sequence
\* with consecutive entries of one line merged, whatever the line and
\* offset deltas are; in dialect A it yields the entries left after those
\* of a negative line delta are dropped.
C20_LineTableDecodes ==
    (last.op = "code_bytes" /\ last.exc = "")
        => Yields(Decoded(last.firstlineno, last.lnotab),
                  Kept(last.lnt, 1, last.firstlineno, TRUE, last.dialect))

-----------------------------------------------------------------------------
(* CodeSpace._gen_code of compiler.py: the opcode yielded for a pseudo-op. *)
(* It looks a name up in fast_vars first; a pseudo-op it has no branch for *)
(* runs into the misspelt test of its last elif, a NameError.              *)

\* the opcode of GET_VAR and SET_VAR in _gen_code
VarCode(c, n, fast, deref, global) ==
    IF In(c.fast_vars, n) THEN Opc(fast, Index(c.fast_vars, n))
    ELSE IF In(c.cell_vars, n) THEN Opc(deref, Index(c.cell_vars, n))
    ELSE IF In(c.free_vars, n)
    THEN Opc(deref, Index(c.free_vars, n) + Len(c.cell_vars))
    ELSE IF In(c.global_vars, n) THEN Opc(global, Index(c.names, n))
    ELSE GenRaises("AssertionError")

\* _gen_code for the pseudo-ops that yield one opcode (POSITION, LABEL and
\* LAMBDA are taken by the loop of code_bytes)
GenCode(c, o, dialect) ==
    CASE o.op = "CALL" -> Opc("CALL_FUNCTION", o.arg)
      [] o.op = "CONST" -> Opc("LOAD_CONST", ConstIndex(c.consts, o.arg))
      [] o.op = "GET_VAR" ->
            VarCode(c, o.arg, "LOAD_FAST", "LOAD_DEREF", "LOAD_GLOBAL")
      [] o.op = "SET_VAR" ->
            VarCode(c, o.arg, "STORE_FAST", "STORE_DEREF", "STORE_GLOBAL")
      [] o.op = "DEFINE" ->
            IF In(c.global_vars, o.arg)
            THEN Opc("STORE_GLOBAL", Index(c.names, o.arg))
            ELSE GenRaises("AssertionError")
      [] o.op = "POP" -> Opc("POP_TOP", 0)
      [] o.op = "RET_VAL" -> Opc("RETURN_VALUE", 0)
      [] o.op = "DUP" -> Opc("DUP_TOP", 0)
      [] o.op = "JUMP" -> Opc("JUMP_ABSOLUTE", o.arg)
      [] o.op = "POP_JUMP_IF_TRUE" -> Opc("POP_JUMP_IF_TRUE", o.arg)
      [] o.op = "POP_JUMP_IF_FALSE" -> Opc("POP_JUMP_IF_FALSE", o.arg)
      [] o.op = "CALL_VARARGS" ->
            IF dialect = "B" THEN Opc("CALL_FUNCTION_EX", 0)
            ELSE Opc("CALL_FUNCTION_VAR", o.arg)
      [] o.op = "BUILD_TUPLE" -> Opc("BUILD_TUPLE", o.arg)
      [] o.op = "BUILD_TUPLE_UNPACK" -> Opc("BUILD_TUPLE_UNPACK", o.arg)
      [] o.op = "SETUP_EXCEPT" -> Opc("SETUP_EXCEPT", o.arg)
      [] o.op = "SETUP_FINALLY" -> Opc("SETUP_FINALLY", o.arg)
      [] o.op = "POP_BLOCK" -> Opc("POP_BLOCK", 0)
      [] o.op = "POP_EXCEPT" -> Opc("POP_EXCEPT", 0)
      [] OTHER -> GenRaises("NameError")

-----------------------------------------------------------------------------
(* C22: pseudop_define.                                                    *)

\* the DEFINE pseudo-op that pseudop_define(n) appended to code space s
DefineOp(s) == scopes[s].pseudops[Len(scopes[s].pseudops)]

\* C22: after pseudop_define(n), whatever list of the code space held n
\* before (a formal, a cell, a free variable, or none), n is in global_vars
\* and in names, and the DEFINE n pseudo-op assembles to a STORE_GLOBAL
\* whose argument is the index of n in names.
C22_DefineForcesGlobal ==
    last.op = "pseudop_define" =>
        /\ In(scopes[last.s].global_vars, last.n)
        /\ In(scopes[last.s].names, last.n)
        /\ DefineOp(last.s) = [op |-> "DEFINE", arg |-> last.n]
        /\ \E i \in DOMAIN scopes[last.s].names :
              /\ scopes[last.s].names[i] = last.n
              /\ GenCode(scopes[last.s], DefineOp(last.s), "B") = Opc("STORE_GLOBAL", i - 1)

\* a formal that a child holds as a free variable, a cell of its code
\* space, has been defined
C22_Witness ==
    /\ last.op = "pseudop_define"
    /\ In(scopes[last.s].args, last.n)
    /\ In(scopes[last.s].cell_vars, last.n)
    /\ \E k \in DOMAIN scopes :
          scopes[k].parent = last.s /\ In(scopes[k].free_vars, last.n)

-----------------------------------------------------------------------------
(* SourceStream of parse.py over a StringIO: the text, the offset of the    *)
(* wrapped stream, and the lin and col that position() returns.            *)

\* the characters of the source text
LF == "\n"
CR == "\r"
SourceChars == {"a", " ", LF, CR}

\* longest source text
MaxText == 4

\* calls made on one stream
MaxCalls == 4

\* the count arguments of read and peek
Counts == {1, 2}

\* sequences over SourceChars of length n
TextsOf(n) == [1..n -> SourceChars]

\* SourceStream.__init__ on a text that does not start with "#!"
SourceStream(text) == [text |-> text, offset |-> 0, lin |-> 1, col |-> 0]

\* stream.read(count) of the wrapped stream: what is left, count at most
RawRead(s, count) ==
    SubSeq(s.text, s.offset + 1,
           IF s.offset + count > Len(s.text) THEN Len(s.text)
           ELSE s.offset + count)

\* the loop of SourceStream.read over the characters of data
RECURSIVE Counted(_, _, _)
Counted(data, lin, col) ==
    IF data = <<>> THEN [lin |-> lin, col |-> col]
    ELSE IF Head(data) = LF THEN Counted(Tail(data), lin + 1, 0)
    ELSE IF Head(data) = CR THEN Counted(Tail(data), lin, 0)
    ELSE Counted(Tail(data), lin, col + 1)

\* SourceStream.read: the stream after it, and the data it returns
SourceRead(s, count) ==
    LET data == RawRead(s, count)
        at == Counted(data, s.lin, s.col)
    IN  [s |-> [s EXCEPT !.offset = @ + Len(data), !.lin = at.lin,
                         !.col = at.col],
         data |-> data]

\* stream.readline() of the wrapped stream: through the next line feed, or
\* all that is left
RECURSIVE RawLine(_, _)
RawLine(text, from) ==
    IF from > Len(text) THEN <<>>
    ELSE IF text[from] = LF THEN <<LF>>
    ELSE <<text[from]>> \o RawLine(text, from + 1)

\* SourceStream.readline
SourceReadline(s) ==
    LET data == RawLine(s.text, s.offset + 1)
    IN  [s |-> [s EXCEPT !.offset = @ + Len(data), !.lin = @ + 1, !.col = 0],
         data |-> data]

\* SourceStream.peek: tell, read of the wrapped stream, seek back
SourcePeek(s, count) == [s |-> s, data |-> RawRead(s, count)]

\* str.isspace of a character
IsSpace(c) == c \in {" ", LF, CR}

\* the tests handed to read_until: that of skip_whitespace, and the end of
\* a word
Tests == {"not isspace", "isspace"}
Testf(t, c) == IF t = "not isspace" THEN ~IsSpace(c) ELSE IsSpace(c)

\* the i of read_until: the characters before the first one that passes
\* the test, all that is left when none does
RECURSIVE Until(_, _, _)
Until(text, from, t) ==
    IF from > Len(text) THEN 0
    ELSE IF Testf(t, text[from]) THEN 0
    ELSE 1 + Until(text, from + 1, t)

\* SourceStream.read_until
SourceReadUntil(s, t) ==
    LET i == Until(s.text, s.offset + 1, t)
    IN  IF i # 0 THEN SourceRead(s, i) ELSE [s |-> s, data |-> <<>>]

\* SourceStream.skip_whitespace
SourceSkipWhitespace(s) == SourceReadUntil(s, "not isspace")

StreamRest ==
    /\ scopes = <<>>
    /\ compiler = 0
    /\ frames = <<>>
    /\ expr = <<>>
    /\ pc = 0
    /\ depth = 0
    /\ iters = 0
    /\ err = ""
    /\ level = 0
    /\ reader = 0

StreamInit ==
    /\ \E n \in 0..MaxText : \E text \in TextsOf(n) :
          stream = SourceStream(text)
    /\ last = [op |-> "source_stream", data |-> <<>>]
    /\ StreamRest

\* a method of the stream has returned
StreamReturned(op, r) ==
    /\ stream' = r.s
    /\ last' = [op |-> op, data |-> r.data]
    /\ iters' = iters + 1
    /\ UNCHANGED <<scopes, compiler, frames, expr, pc, depth, err, level,
                   reader>>

StreamRead ==
    /\ iters < MaxCalls
    /\ \E count \in Counts : StreamReturned("read", SourceRead(stream, count))

StreamReadline ==
    /\ iters < MaxCalls
    /\ StreamReturned("readline", SourceReadline(stream))

StreamPeek ==
    /\ iters < MaxCalls
    /\ \E count \in Counts : StreamReturned("peek", SourcePeek(stream, count))

StreamReadUntil ==
    /\ iters < MaxCalls
    /\ \E t \in Tests : StreamReturned("read_until", SourceReadUntil(stream, t))

StreamSkipWhitespace ==
    /\ iters < MaxCalls
    /\ StreamReturned("skip_whitespace", SourceSkipWhitespace(stream))

StreamNext ==
    \/ StreamRead
    \/ StreamReadline
    \/ StreamPeek
    \/ StreamReadUntil
    \/ StreamSkipWhitespace

SpecStream == StreamInit /\ [][StreamNext]_vars

-----------------------------------------------------------------------------
(* C23: the position of a SourceStream.                                    *)

\* the characters consumed so far
Consumed(s) == SubSeq(s.text, 1, s.offset)

\* line feeds in a text
RECURSIVE LineFeeds(_)
LineFeeds(text) ==
    IF text = <<>> THEN 0
    ELSE (IF Head(text) = LF THEN 1 ELSE 0) + LineFeeds(Tail(text))

\* characters after the last line feed or carriage return of a text
RECURSIVE SinceBreak(_)
SinceBreak(text) ==
    IF text = <<>> THEN 0
    ELSE IF text[Len(text)] \in {LF, CR} THEN 0
    ELSE 1 + SinceBreak(SubSeq(text, 1, Len(text) - 1))

\* position() is the line and column of the next unread character
PositionIsNext(s) ==
    /\ s.lin = 1 + LineFeeds(Consumed(s))
    /\ s.col = SinceBreak(Consumed(s))

\* a step that is a peek leaves the position and the offset alone
PeekKeeps == last'.op = "peek" => stream' = stream

\* C23: after any sequence of read, readline, peek, read_until and
\* skip_whitespace calls, lin is 1 plus the line feeds consumed and col the
\* characters consumed since the last line feed or carriage return, and a
\* peek changes neither the position nor the offset.  Violated: readline
\* adds a line and resets the column whether or not it consumed a line
\* feed, as on a last line that has none and at the end of the text.
C23_PositionIsNext == [](PositionIsNext(stream)) /\ [][PeekKeeps]_vars

\* the part of C23 that holds: the calls other than readline keep the
\* position right, and so does a readline that consumed a line feed
C23_ExceptUnterminatedLine ==
    [][/\ PositionIsNext(stream)
       /\ ~(/\ last'.op = "readline"
            /\ (last'.data = <<>> \/ last'.data[Len(last'.data)] # LF))
       => PositionIsNext(stream')]_vars

-----------------------------------------------------------------------------
(* C28: the code space that env names.                                     *)

\* the innermost activate block that has not exited
Innermost == frames[Len(frames)]

\* a built-in special invoked through env now (quote of a number) emits
\* one pseudo-op into code space s and touches no other code space
EmitsInto(s) ==
    LET st == InvokeSpecial(Machine(St, <<>>), "quote", Num(1))
    IN  /\ Ok(st)
        /\ Len(st.scopes[s].pseudops) = Len(scopes[s].pseudops) + 1
        /\ \A k \in DOMAIN scopes : k # s => st.scopes[k] = scopes[k]

\* C28: at every point env["__compiler__"] is the most recently activated
\* code space whose block has not exited (absent when there is none), the
\* blocks nest last-in first-out (each one found the one below it in env
\* when it was entered), and a special invoked through env while no
\* exception propagates emits into that innermost code space, the parent
\* again once the block of a child has exited.
C28_CompilerIsInnermost ==
    /\ frames = <<>> => compiler = 0
    /\ frames # <<>> =>
          /\ compiler = Innermost.space
          /\ err = "" => EmitsInto(Innermost.space)
    /\ \A i \in DOMAIN frames :
          frames[i].old = IF i = 1 THEN 0 ELSE frames[i - 1].space

\* the block of a child has exited normally inside the block of its parent,
\* itself a child, and a special emits into the parent
C28_Witness ==
    /\ last.op = "exit"
    /\ err = ""
    /\ Len(frames) = 2
    /\ scopes[last.s].parent = Innermost.space
    /\ compiler = Innermost.space
    /\ EmitsInto(Innermost.space)

-----------------------------------------------------------------------------
(* C29: temporary_event_macro on a normal exit.                            *)

\* the _read of a quasiquote or unquote has returned without an exception
\* and its with statement is about to be left
LeavesWith ==
    /\ (Given("_read_quasiquote") \/ Given("_read_unquote"))
    /\ Top.phase = "with"

\* C29: when a temporary_event_macro block exits normally, get_event_macro
\* of its character and the terminating list of the reader are what they
\* were before the block was entered, also for a block nested in a block
\* for the same character.  Violated: on exit set_event_macro appends the
\* character of a macro that was terminating before to the terminating
\* list once more, and the entry had appended it already.
C29_TemporaryMacroRestored ==
    [][LeavesWith =>
          /\ GetEventMacro(reader', TempChar(Top.fn)) = Top.old
          /\ reader'.terminating = Top.terms]_vars

\* the part of C29 that holds: what get_event_macro returns is restored
C29_MacroRestored ==
    [][LeavesWith => GetEventMacro(reader', TempChar(Top.fn)) = Top.old]_vars

\* the part of C29 that holds: a block entered while its character had no
\* macro puts the terminating list back
C29_FirstBlockRestored ==
    [][LeavesWith /\ Top.old = <<>> /\ reader.terminating = Append(Top.terms, TempChar(Top.fn))
          => reader' = [reader EXCEPT !.terminating = Top.terms,
                           !.reader_macros = [c \in (DOMAIN @) \ {TempChar(Top.fn)} |-> @[c]]]]_vars

-----------------------------------------------------------------------------
(* CodeSpace.code_bytes of compiler.py, the branch for version 3.6, and     *)
(* the branch for 3.6 of the apply_jump_labels of that file.               *)

\* the body of the loop of code_bytes for one opcode
CodeSpaceEncode(w, opa) ==
    IF opa.op = "" THEN [w EXCEPT !.exc = opa.arg]
    ELSE IF HasJabs(opa.op)
    THEN [MarkJabs(w, opa.arg) EXCEPT
             !.coll = @ \o <<Opc("EXTENDED_ARG", 0), Opc(opa.op, 0)>>,
             !.offset = @ + 4]
    ELSE IF HasJrel(opa.op)
    THEN [MarkJrel(w, opa.arg) EXCEPT
             !.coll = @ \o <<Opc("EXTENDED_ARG", 0), Opc(opa.op, 0)>>,
             !.offset = @ + 4]
    ELSE [w EXCEPT !.coll = Append(@, opa), !.offset = @ + 2]

\* one pseudo-op through the loop, the opcode being the one gen_opcode of
\* cpython36.py yields for it
CodeSpaceStep(c, w, o) ==
    IF o.op = "POSITION" THEN SetLine(w, o.arg)
    ELSE IF o.op = "LABEL" THEN AddLabel(w, o.arg)
    ELSE CodeSpaceEncode(w, GenOpcode(c, o, "B"))

\* the loop of code_bytes over the pseudo-ops lo..hi
RECURSIVE CodeSpaceFrom(_, _, _, _, _)
CodeSpaceFrom(c, w, ops, lo, hi) ==
    IF w.exc # "" \/ lo > hi THEN w
    ELSE IF lo = hi THEN CodeSpaceStep(c, w, ops[lo])
    ELSE CodeSpaceFrom(c, CodeSpaceFrom(c, w, ops, lo, (lo + hi) \div 2),
                       ops, ((lo + hi) \div 2) + 1, hi)

\* target -= (off + 2) of apply_jump_labels
CodeSpaceRelTarget(labels, j) == labels[j.name] - (j.off + 2)

CodeSpaceTargetAt(w, at) ==
    IF at \in Marked(w.jabs) THEN AbsTarget(w.labels, MarkAt(w.jabs, at))
    ELSE CodeSpaceRelTarget(w.labels, MarkAt(w.jrel, at))

\* the entry i of coll after apply_jump_labels: the marked entry is the
\* EXTENDED_ARG and the next one the jump
CodeSpacePatchedEntry(w, i) ==
    IF (i - 1) \in Marked(w.jabs) \cup Marked(w.jrel)
    THEN Opc(w.coll[i].op, Ext(CodeSpaceTargetAt(w, i - 1)))
    ELSE IF (i - 2) \in Marked(w.jabs) \cup Marked(w.jrel)
    THEN Opc(w.coll[i].op, Low(CodeSpaceTargetAt(w, i - 2)))
    ELSE w.coll[i]

\* apply_jump_labels of compiler.py
CodeSpaceApplyJumpLabels(w) ==
    IF w.exc # "" THEN w
    ELSE IF \/ \E k \in DOMAIN w.jabs : w.jabs[k].name \notin DOMAIN w.labels
            \/ \E k \in DOMAIN w.jrel : w.jrel[k].name \notin DOMAIN w.labels
    THEN [w EXCEPT !.exc = "KeyError"]
    ELSE [w EXCEPT !.coll = [i \in DOMAIN w.coll |-> CodeSpacePatchedEntry(w, i)]]

\* CodeSpace.code_bytes(lnt) over the opcodes of code space c
CodeSpaceCodeBytes(c) ==
    Joined(CodeSpaceApplyJumpLabels(
               CodeSpaceFrom(c, NewWalk, c.pseudops, 1, Len(c.pseudops))), "B")

-----------------------------------------------------------------------------
(* C30: the two assemblers for version 3.6.                                *)

\* CPython36.code_bytes has assembled the buffer, or raised
Assembled36 == last.op = "code_bytes" /\ last.dialect = "B"

\* the code of CodeSpace.code_bytes is that of the last assembly
SameBytes(w) == w.exc = last.exc /\ (w.exc = "" => w.coll = last.code)

\* C30: for the same opcodes, with absolute and relative jumps and labels,
\* the 3.6 branch of CodeSpace.code_bytes with the apply_jump_labels of
\* compiler.py gives the bytes CPython36.code_bytes gives with the
\* apply_jump_labels of cpython36.py.  Violated: compiler.py subtracts
\* off + 2 from the label of a relative jump, cpython36.py off + 4.
C30_SameBytes == Assembled36 => SameBytes(CodeSpaceCodeBytes(scopes[1]))

\* the part of C30 that holds: buffers without relative jumps
C30_SameWithoutRelative ==
    Assembled36 /\ JumpPlaces(RelJumps) = {}
        => SameBytes(CodeSpaceCodeBytes(scopes[1]))

-----------------------------------------------------------------------------
(* Specification of add_expression: expressions are added, one call after  *)
(* the other, to a root code space inside its activate block.  last holds  *)
(* the code spaces as they were before the latest call.                    *)

\* add_expression calls made on the root
MaxAdds == 2

\* the expressions that are elements of the forms
Elems == {X, Num(1), List(<<Sym("quote"), X>>), List(<<Sym("identity"), X>>)}

\* the heads of the calls: a symbol that is no special, and a pair
Heads == {X, List(<<Sym("identity"), Sym("f")>>)}

\* function calls with up to two arguments
ExprCalls ==
    {List(<<h>>) : h \in Heads}
    \cup {List(<<h, a>>) : h \in Heads, a \in Elems}
    \cup {List(<<h, a, b>>) : h \in Heads, a \in Elems, b \in Elems}

\* forms of built-in specials
ExprSpecials ==
    {List(<<Sym("quote"), e>>) : e \in Elems}
    \cup {List(<<Sym("begin"), e, X>>) : e \in Elems}
    \cup {List(<<Sym("define"), X, e>>) : e \in Elems}

\* forms of the macro, the last two with a wrong number of arguments
ExprMacros ==
    {List(<<Sym("identity"), e>>) :
        e \in Elems \cup {Nil, List(<<X, Num(1)>>),
                          List(<<Sym("identity"), List(<<Sym("identity"), X>>)>>)}}
    \cup {List(<<Sym("identity")>>), List(<<Sym("identity"), X, X>>)}

ExprInit ==
    /\ scopes = Activate([NoSpaces EXCEPT
                             !.scopes = <<NewCodeSpace(0, <<>>, FALSE)>>], 1).scopes
    /\ compiler = 1
    /\ frames = <<[space |-> 1, old |-> 0]>>
    /\ expr = Nil
    /\ last = [op |-> "activate", before |-> <<>>]
    /\ err = ""
    /\ iters = 0
    /\ pc = 0
    /\ depth = 0
    /\ level = 0
    /\ reader = 0
    /\ stream = <<>>

\* self.add_expression(e) on the root
Adds(e) ==
    /\ err = ""
    /\ expr' = e
    /\ Leaves(Execute(AddExpression(Machine(St, <<>>), 1, e), 16))
    /\ last' = [op |-> "add_expression", before |-> scopes]
    /\ iters' = iters + 1
    /\ UNCHANGED <<frames, pc, depth, level, reader, stream>>

ExprAtom == iters < MaxAdds /\ \E e \in {X, Nil, Num(1), Flt(1)} : Adds(e)

ExprCall == iters < MaxAdds /\ \E e \in ExprCalls : Adds(e)

ExprSpecial == iters < MaxAdds /\ \E e \in ExprSpecials : Adds(e)

ExprMacro == iters < MaxAdds /\ \E e \in ExprMacros : Adds(e)

ExprNext ==
    \/ ExprAtom
    \/ ExprCall
    \/ ExprSpecial
    \/ ExprMacro

SpecExpr == ExprInit /\ [][ExprNext]_vars

-----------------------------------------------------------------------------
(* C24: what add_expression makes of a pair.                               *)

\* the compiler as the latest add_expression found it
Before ==
    Machine([scopes |-> last.before, compiler |-> compiler, err |-> ""], <<>>)

\* the latest add_expression left what the statements of st leave
SameAs(st) == scopes = Execute(st, 16).scopes /\ err = Execute(st, 16).err

\* the special the head of pair e resolved to, "" when it did not
ResolvesTo(e) ==
    IF IsSymbol(e.head) THEN FindSpecial(Before, 1, e.head).special ELSE ""

\* add_expression of every element of e in turn, then CALL k
ElementsThenCall(e, k) ==
    Do(Before, [i \in DOMAIN Unpack(e) |->
                   TExpr("add_expression", 1, Unpack(e)[i])]
               \o <<TOp("CALL", 1, k)>>)

\* C24: add_expression on a pair whose head does not resolve to a Special
\* emits what add_expression of each element emits, from left to right, and
\* then one CALL k, k being the number of elements minus one; when the head
\* resolves to a built-in special, which returns None, it emits what the
\* special emitted and nothing more; when it resolves to a macro, which
\* returns an expression, it emits what add_expression of that expression
\* emits.
C24_PairIsCallOrExpansion ==
    last.op = "add_expression" /\ IsPair(expr) =>
        /\ ResolvesTo(expr) = "" =>
              SameAs(ElementsThenCall(expr, Len(Unpack(expr)) - 1))
        /\ ResolvesTo(expr) \in SpecialNames =>
              SameAs(InvokeSpecial(Before, ResolvesTo(expr), expr.tail))
        /\ ResolvesTo(expr) \in MacroNames /\ Len(Unpack(expr.tail)) = 1 =>
              SameAs(AddExpression(Before, 1, Unpack(expr.tail)[1]))

\* a call of two arguments whose head is a pair and which has a macro form
\* among its arguments has been added: its last pseudo-op is CALL 2
C24_Witness ==
    /\ last.op = "add_expression"
    /\ err = ""
    /\ IsPair(expr)
    /\ IsPair(expr.head)
    /\ Len(Unpack(expr)) = 3
    /\ \E i \in 2..3 : Unpack(expr)[i] = List(<<Sym("identity"), X>>)
    /\ scopes[1].pseudops[Len(scopes[1].pseudops)] = [op |-> "CALL", arg |-> 2]
    /\ Len(scopes[1].pseudops) > Len(last.before[1].pseudops) + 3

-----------------------------------------------------------------------------
(* C27: the constant a LOAD_CONST selects.                                 *)

\* the places of the CONST pseudo-ops of code space s
ConstPlaces(s) ==
    {i \in DOMAIN scopes[s].pseudops : scopes[s].pseudops[i].op = "CONST"}

\* the constant-pool entry that the opcode _gen_code yields for the
\* pseudo-op at place i of code space s selects
Loaded(s, i) ==
    scopes[s].consts[GenCode(scopes[s], scopes[s].pseudops[i], "B").arg + 1]

\* C27: for every CONST v pseudo-op of a code space the index of the
\* LOAD_CONST emitted for it selects a constant-pool entry that is v itself,
\* of the same type: 1 and 1.0 used in one code space each load their own
\* value.  Violated: declare_const and consts.index compare with ==, so the
\* second of two equal constants gets the entry of the first.
C27_ConstLoadsItself ==
    \A s \in DOMAIN scopes : \A i \in ConstPlaces(s) :
        /\ GenCode(scopes[s], scopes[s].pseudops[i], "B").op = "LOAD_CONST"
        /\ Loaded(s, i) = scopes[s].pseudops[i].arg

\* the part of C27 that holds: the entry selected is equal to v
C27_ConstLoadsEqual ==
    \A s \in DOMAIN scopes : \A i \in ConstPlaces(s) :
        /\ GenCode(scopes[s], scopes[s].pseudops[i], "B").op = "LOAD_CONST"
        /\ PyEq(Loaded(s, i), scopes[s].pseudops[i].arg)

-----------------------------------------------------------------------------
(* C26: the closure of a LAMBDA.                                           *)

\* the loop of _gen_lambda over code.co_freevars: a LOAD_CLOSURE for each,
\* or the assertion that fails
LoadClosures(c, freevars) ==
    [i \in DOMAIN freevars |->
        IF In(c.cell_vars, freevars[i])
        THEN Opc("LOAD_CLOSURE", Index(c.cell_vars, freevars[i]))
        ELSE IF In(c.free_vars, freevars[i])
        THEN Opc("LOAD_CLOSURE", Len(c.cell_vars) + Index(c.free_vars, freevars[i]))
        ELSE GenRaises("AssertionError")]

\* the code spaces that have a parent
Children == {k \in DOMAIN scopes : scopes[k].parent # 0}

\* C26: at every depth and after every order of variable references, each
\* free variable of a child is in the cell_vars or the free_vars of its
\* parent, so that the loop of _gen_lambda in the parent, run on the free
\* variables of the child's code object, yields a LOAD_CLOSURE for each
\* and does not reach its failing assertion.
C26_ClosureVarsHeld ==
    \A k \in Children :
        /\ \A i \in DOMAIN scopes[k].free_vars :
              \/ In(scopes[scopes[k].parent].cell_vars, scopes[k].free_vars[i])
              \/ In(scopes[scopes[k].parent].free_vars, scopes[k].free_vars[i])
        /\ \A i \in DOMAIN scopes[k].free_vars :
              LoadClosures(scopes[scopes[k].parent], scopes[k].free_vars)[i].op
                  = "LOAD_CLOSURE"

\* a grandchild holds as a free variable a name that its parent holds as a
\* free variable and the root as a cell, and the name was requested in the
\* grandchild first
C26_Witness ==
    /\ Len(scopes) = 3
    /\ last.op = "request_var"
    /\ last.s = 3
    /\ scopes[3].free_vars # <<>>
    /\ In(scopes[2].free_vars, scopes[3].free_vars[1])
    /\ In(scopes[1].cell_vars, scopes[3].free_vars[1])
    /\ LoadClosures(scopes[2], scopes[3].free_vars)[1] = Opc("LOAD_CLOSURE", 0)

-----------------------------------------------------------------------------
(* The code object of CodeSpace.complete.                                  *)

\* CodeFlag
NEWLOCALS == 2
VARARGS == 4
NESTED == 16
NOFREE == 64

\* A complete that never sets NOFREE
CodeTypeNeverNofree(c) ==
    [argcount |-> Len(c.args) - (IF c.varargs THEN 1 ELSE 0),
     nlocals  |-> Len(c.fast_vars) + Len(c.cell_vars),
     flags    |-> (NEWLOCALS + NESTED) + (IF c.varargs THEN VARARGS ELSE 0),
     varnames |-> c.fast_vars \o c.cell_vars,
     freevars |-> c.free_vars,
     cellvars |-> c.cell_vars]

\* the arguments complete() hands to CodeType, those that are read off the
\* lists of the code space c; the flags are bits of their own, so the sum
\* is their bitwise or
CodeType(c) ==
    [argcount |-> Len(c.args) - (IF c.varargs THEN 1 ELSE 0),
     nlocals  |-> Len(c.fast_vars) + Len(c.cell_vars),
     flags    |-> (NEWLOCALS + NESTED) + (IF c.varargs THEN VARARGS ELSE 0)
                  + (IF c.free_vars = <<>> THEN NOFREE ELSE 0),
     varnames |-> c.fast_vars \o c.cell_vars,
     freevars |-> c.free_vars,
     cellvars |-> c.cell_vars]

-----------------------------------------------------------------------------
(* C21 and C25: the code objects of a compilation.  A code space is not    *)
(* touched after its complete() has returned, so its code object is read   *)
(* off the code space.                                                     *)

\* the code spaces whose complete() has returned a code object
CompletedSpaces == {s \in DOMAIN scopes : scopes[s].completed}

\* bit b of the flags f is set
HasFlag(f, b) == (f \div b) % 2 = 1

\* C21: the code object complete() returns has the flags NEWLOCALS and
\* NESTED, VARARGS exactly when the scope is varargs, NOFREE exactly when
\* free_vars is empty, and no other flag; its local count is
\* len(fast_vars) + len(cell_vars), its varnames are fast_vars followed by
\* cell_vars, and its argcount is the number of formals without the rest
\* formal of a varargs scope.
C21_CodeObjectFields ==
    \A s \in CompletedSpaces :
        /\ HasFlag(CodeType(scopes[s]).flags, NEWLOCALS)
        /\ HasFlag(CodeType(scopes[s]).flags, NESTED)
        /\ HasFlag(CodeType(scopes[s]).flags, VARARGS) <=> scopes[s].varargs
        /\ HasFlag(CodeType(scopes[s]).flags, NOFREE) <=> scopes[s].free_vars = <<>>
        /\ \A b \in {1, 8, 32, 128} : ~HasFlag(CodeType(scopes[s]).flags, b)
        /\ CodeType(scopes[s]).flags < 256
        /\ CodeType(scopes[s]).nlocals
              = Len(scopes[s].fast_vars) + Len(scopes[s].cell_vars)
        /\ CodeType(scopes[s]).varnames = scopes[s].fast_vars \o scopes[s].cell_vars
        /\ CodeType(scopes[s]).argcount + (IF scopes[s].varargs THEN 1 ELSE 0)
              = Len(scopes[s].args)

\* a compilation has returned the code object of a varargs scope whose
\* rest formal is a cell, and that of a scope with a free variable
C21_Witness ==
    /\ err = ""
    /\ \E s \in CompletedSpaces :
          /\ scopes[s].varargs
          /\ scopes[s].cell_vars # <<>>
          /\ Len(scopes[s].args) = 2
    /\ \E s \in CompletedSpaces : scopes[s].free_vars # <<>>

\* C25: in the code object complete() returns, the leading entries of
\* varnames are the formals of the scope in the order of their declaration,
\* whichever of them a child has made cells.  Violated: request_cell takes
\* the formal out of fast_vars and puts it at the end of cell_vars, and
\* varnames is fast_vars followed by cell_vars.
C25_VarnamesLeadWithFormals ==
    \A s \in CompletedSpaces :
        /\ Len(CodeType(scopes[s]).varnames) >= Len(scopes[s].args)
        /\ SubSeq(CodeType(scopes[s]).varnames, 1, Len(scopes[s].args))
              = scopes[s].args

\* the part of C25 that holds: every formal is among the varnames
C25_FormalsAmongVarnames ==
    \A s \in CompletedSpaces : \A i \in DOMAIN scopes[s].args :
        In(CodeType(scopes[s]).varnames, scopes[s].args[i])

====
